---- MODULE Spec2Model ----
(***************************************************************************)
(* Model of the quarterly forestry simulation (forestry_game_modular.py,   *)
(* game_engine.py and the subsystems they drive).                          *)
(*                                                                         *)
(* Numeric conventions.  Money is in dollars, volume in m3.  The floats    *)
(* reputation, relationship_level, biodiversity_score, permit_bonus and    *)
(* every probability are fixed-point thousandths (0.05 is 50, 1.0 is       *)
(* 1000).  cumulative_disturbance is in hundredths of a hectare, because   *)
(* the code adds planned_volume * 0.01 to it; disturbance_cap is in whole  *)
(* hectares as in the code.  Binary floating-point rounding error is not   *)
(* modelled.                                                               *)
(***************************************************************************)
EXTENDS Integers, Sequences, FiniteSets, TLC

VARIABLES
    state,            \* the GameState aggregate
    pc,               \* position of play_game / ForestryGame.play
    quarter_count,    \* loop counter of the main loop
    total_quarters,   \* loop bound of the main loop (mutable: "1 more quarter")
    todo,             \* selected management activities not yet executed
    verdict,          \* message of check_win_conditions once it returned True
    last,             \* what the last executed handler did (observation only)
    focus,            \* the part of the input space this run explores
    submitted_in      \* block id -> quarter_count of its latest submission
                      \* (observation only)

vars == <<state, pc, quarter_count, total_quarters, todo, verdict, last, focus,
          submitted_in>>

----------------------------------------------------------------------------
(* Bounds of the exploration                                               *)

\* number of quarters the driver is asked to play (argument of play()) in
\* the runs that explore one subsystem in depth
MaxQuarters == 6
\* the same for the runs that only follow the calendar
LongQuarters == 9
\* the same for the runs that explore one year's permits or stewardship
ShortQuarters == 3
\* most blocks one planning pass may create in the explored runs
MaxPlanBlocks == 2

----------------------------------------------------------------------------
(* Generic helpers                                                         *)

Min(a, b) == IF a < b THEN a ELSE b
Max(a, b) == IF a > b THEN a ELSE b

\* int(x * num / den) for x >= 0, as Python's int() of a non-negative float;
\* split so that no intermediate product leaves the 32-bit range
Scale(x, num, den) == (x \div den) * num + ((x % den) * num) \div den

RECURSIVE SumSeq(_)
SumSeq(q) == IF q = <<>> THEN 0 ELSE Head(q) + SumSeq(Tail(q))

Range(q) == { q[i] : i \in 1..Len(q) }

RECURSIVE SortedSeq(_)
\* the members of a finite set of integers in increasing order
SortedSeq(S) ==
    IF S = {} THEN <<>>
    ELSE LET m == CHOOSE x \in S : \A y \in S : x <= y
         IN <<m>> \o SortedSeq(S \ {m})

----------------------------------------------------------------------------
(* Data model (game_models.py)                                             *)

PermitStatus == {"pending", "approved", "denied", "delayed"}
CertificationType == <<"FSC", "PEFC", "SFI">>

\* a block that is created with the agreement and the clearance in hand
HarvestBlock_agreed(id, volume, year, old_growth, priority) ==
    [ id |-> id, volume_m3 |-> volume, year_planned |-> year,
      permit_status |-> "pending", permit_submitted |-> 0,
      processing_time |-> 0, first_nations_agreement |-> TRUE,
      heritage_cleared |-> TRUE, old_growth_affected |-> old_growth,
      priority |-> priority, disaster_affected |-> FALSE,
      disaster_type |-> "none", volume_loss_percent |-> 0 ]

HarvestBlock(id, volume, year, old_growth, priority) ==
    [ id |-> id, volume_m3 |-> volume, year_planned |-> year,
      permit_status |-> "pending", permit_submitted |-> 0,
      processing_time |-> 0, first_nations_agreement |-> FALSE,
      heritage_cleared |-> FALSE, old_growth_affected |-> old_growth,
      priority |-> priority, disaster_affected |-> FALSE,
      disaster_type |-> "none", volume_loss_percent |-> 0 ]

FirstNation(name, level, treaty) ==
    [ name |-> name, relationship_level |-> level, treaty_area |-> treaty,
      active_negotiations |-> FALSE, agreement_signed |-> FALSE,
      consultation_cost |-> 8000, last_consultation_year |-> 0,
      consultation_frequency_required |-> 2 ]

needs_consultation(fn, current_year) ==
    (current_year - fn.last_consultation_year)
        >= fn.consultation_frequency_required

Certification(cert_type, year, annual, premium, rep) ==
    [ cert_type |-> cert_type, obtained_year |-> year, annual_cost |-> annual,
      revenue_bonus |-> premium, reputation_bonus |-> rep, active |-> TRUE ]

GameState ==
    [ year |-> 2025, quarter |-> 1, budget |-> 2500000, reputation |-> 500,
      permit_bonus |-> 0, region |-> "",
      annual_allowable_cut |-> 150000, aac_decline_rate |-> 30,
      harvest_blocks |-> <<>>, first_nations |-> <<>>,
      certifications |-> <<>>, mill_capacity |-> 100000,
      jobs_created |-> 0, biodiversity_score |-> 500,
      cumulative_disturbance |-> 0, disturbance_cap |-> 50000,
      glyphosate_banned |-> FALSE, old_growth_deferrals_expanded |-> FALSE,
      permit_backlog_days |-> 120,
      revenue_per_m3 |-> 85, operating_cost_per_m3 |-> 45,
      total_revenue |-> 0, total_costs |-> 0,
      years_operated |-> 0, consecutive_profitable_years |-> 0,
      social_license_maintained |-> TRUE,
      fn_liaison |-> "none", quarterly_profit |-> 0,
      safety_violations |-> -1,    \* -1: the attribute is not set
      corrupt_officials |-> <<>>,  \* empty also while the attribute is not set
      criminal_convictions |-> 0,  \* 0 also while the attribute is not set
      raised |-> FALSE ]   \* an exception is propagating (not a field)

get_active_certifications(st) ==
    SelectSeq(st.certifications, LAMBDA c : c.active)

SetFN(st, i, fn) == [st EXCEPT !.first_nations[i] = fn]

----------------------------------------------------------------------------
(* Random draws.  random.random() is a value r in [0, 1), kept in          *)
(* thousandths; the code's comparisons r < p are evaluated on the value.   *)

\* representative results of random.random(): the least and the greatest
Rolls == {0, 999}
\* representative results of random.randint(75000, 200000)
LegalCosts == {75000, 200000}
\* results of the random.random() of a permit decision
DecisionRolls == {0, 250, 500, 750, 999}

\* one event_chance value per band of random_policy_events
PolicyRolls == {100, 170, 250, 350, 450, 900}

----------------------------------------------------------------------------
(* Setup (forestry_game_modular.py)                                        *)

choose_region(st, idx) ==
    IF idx = 0 THEN
        [st EXCEPT !.region = "SBS", !.annual_allowable_cut = 200000,
                   !.aac_decline_rate = 50,
                   !.first_nations = @ \o
                       << FirstNation("Carrier Nation", 600, FALSE),
                          FirstNation("Takla Nation", 400, FALSE) >>]
    ELSE IF idx = 1 THEN
        [st EXCEPT !.region = "IDF", !.annual_allowable_cut = 120000,
                   !.aac_decline_rate = 25,
                   !.first_nations = @ \o
                       << FirstNation("Secwepemc Nation", 500, TRUE),
                          FirstNation("Okanagan Nation", 300, TRUE) >>]
    ELSE
        [st EXCEPT !.region = "MS", !.annual_allowable_cut = 80000,
                   !.aac_decline_rate = 20, !.disturbance_cap = 30000,
                   !.first_nations = @ \o
                       << FirstNation("Treaty 8 Nation", 300, TRUE),
                          FirstNation("Kaska Nation", 400, FALSE) >>]

initial_setup(st, plan_idx, heritage_idx) ==
    LET s1 == IF plan_idx = 0
              THEN [st EXCEPT !.budget = @ - 10000, !.reputation = @ - 100]
              ELSE [st EXCEPT !.budget = @ - 30000, !.reputation = @ + 100,
                              !.permit_bonus = @ + 50]
        \* the loops over state.harvest_blocks mark the blocks that exist
        \* at setup time
        mark(v) == [k \in 1..Len(s1.harvest_blocks) |->
                       [s1.harvest_blocks[k] EXCEPT !.heritage_cleared = v]]
    IN IF heritage_idx = 0
       THEN [s1 EXCEPT !.budget = @ - 5000, !.reputation = @ - 50,
                       !.permit_bonus = @ - 100,
                       !.harvest_blocks = mark(FALSE)]
       ELSE [s1 EXCEPT !.budget = @ - 15000, !.reputation = @ + 50,
                       !.permit_bonus = @ + 50,
                       !.harvest_blocks = mark(TRUE)]

----------------------------------------------------------------------------
(* Policy events (events.py)                                               *)

RECURSIVE RemoveWhere(_, _)
\* the blocks of q that are not in the id set gone, order kept
RemoveWhere(q, gone) ==
    IF q = <<>> THEN <<>>
    ELSE IF Head(q).id \in gone THEN RemoveWhere(Tail(q), gone)
         ELSE <<Head(q)>> \o RemoveWhere(Tail(q), gone)

random_policy_events(st, event_chance) ==
    IF event_chance < 150 /\ ~st.old_growth_deferrals_expanded THEN
        LET gone == { b.id : b \in { c \in Range(st.harvest_blocks) :
                        c.old_growth_affected /\ c.permit_status # "approved" } }
        IN [st EXCEPT !.old_growth_deferrals_expanded = TRUE,
                      !.harvest_blocks = RemoveWhere(@, gone),
                      !.reputation = @ + 100]
    ELSE IF event_chance < 200 /\ ~st.glyphosate_banned THEN
        [st EXCEPT !.glyphosate_banned = TRUE, !.reputation = @ + 150]
    ELSE IF event_chance < 300 THEN
        [st EXCEPT !.permit_backlog_days = Max(25, @ - 30),
                   !.annual_allowable_cut = Scale(@, 95, 100)]
    ELSE IF event_chance < 400 THEN
        IF st.reputation < 500
        THEN [st EXCEPT !.reputation = @ - 200,
                        !.social_license_maintained = FALSE]
        ELSE [st EXCEPT !.reputation = @ + 100]
    ELSE IF event_chance < 500 THEN
        LET fns == st.first_nations
        IN [st EXCEPT !.first_nations =
              [k \in 1..Len(fns) |->
                  IF fns[k].treaty_area /\ ~fns[k].agreement_signed
                  THEN [fns[k] EXCEPT !.consultation_cost = @ + 15000]
                  ELSE fns[k]]]
    ELSE st

----------------------------------------------------------------------------
(* Consultation, treaty negotiation and legal challenge (first_nations.py) *)
(* A handler that finds st.raised set does nothing more: the exception     *)
(* raised below it is propagating.                                         *)

\* index of the first block whose permit_status is the string "delayed"
\* (block.permit_status.value raises AttributeError on it), else Len + 1
FirstDelayed(blocks) ==
    LET hit == { k \in 1..Len(blocks) : blocks[k].permit_status = "delayed" }
    IN IF hit = {} THEN Len(blocks) + 1
       ELSE CHOOSE k \in hit : \A j \in hit : k <= j

\* _trigger_legal_challenge suspending every block, whatever its status
_trigger_legal_challenge_every(st, i, d) ==
    IF st.raised THEN st ELSE
    LET s1 == [st EXCEPT !.budget = @ - d.legal_cost]
        fn == s1.first_nations[i]
        win_chance == 3000 + 3 * fn.relationship_level + 2 * s1.reputation
    IN IF d.r_court * 10 < win_chance
       THEN [s1 EXCEPT !.first_nations[i].relationship_level = @ + 100]
       ELSE [s1 EXCEPT !.harvest_blocks =
                          [k \in 1..Len(s1.harvest_blocks) |->
                              [s1.harvest_blocks[k] EXCEPT
                                   !.permit_status = "delayed"]],
                       !.reputation = @ - 300,
                       !.first_nations[i].relationship_level = @ - 200]

\* d: [legal_cost, r_court]
_trigger_legal_challenge(st, i, d) ==
    IF st.raised THEN st ELSE
    LET s1 == [st EXCEPT !.budget = @ - d.legal_cost]
        fn == s1.first_nations[i]
        \* win_chance * 10000
        win_chance == 3000 + 3 * fn.relationship_level + 2 * s1.reputation
    IN IF d.r_court * 10 < win_chance
       THEN [s1 EXCEPT !.first_nations[i].relationship_level = @ + 100]
       ELSE LET stop == FirstDelayed(s1.harvest_blocks)
                suspended ==
                  [k \in 1..Len(s1.harvest_blocks) |->
                     IF k < stop /\ s1.harvest_blocks[k].permit_status = "approved"
                     THEN [s1.harvest_blocks[k] EXCEPT !.permit_status = "delayed"]
                     ELSE s1.harvest_blocks[k]]
            IN IF stop <= Len(s1.harvest_blocks)
               THEN [s1 EXCEPT !.harvest_blocks = suspended, !.raised = TRUE]
               ELSE [s1 EXCEPT !.harvest_blocks = suspended,
                               !.reputation = @ - 300,
                               !.first_nations[i].relationship_level = @ - 200]

\* _trigger_treaty_negotiations granting the full concession on credit
_trigger_treaty_negotiations_on_credit(st, i, d) ==
    IF st.raised THEN st ELSE
    IF d.treaty_choice = 0 THEN
        [st EXCEPT !.budget = @ - 100000,
                   !.disturbance_cap = Scale(@, 8, 10),
                   !.first_nations[i].relationship_level = 800,
                   !.first_nations[i].agreement_signed = TRUE,
                   !.reputation = @ + 300]
    ELSE IF d.treaty_choice = 1 THEN
        IF st.budget >= 50000
        THEN LET s1 == [st EXCEPT !.budget = @ - 50000,
                                  !.disturbance_cap = Scale(@, 9, 10),
                                  !.first_nations[i].relationship_level = @ + 100]
             IN IF d.r_accept < 600
                THEN [s1 EXCEPT !.first_nations[i].agreement_signed = TRUE]
                ELSE _trigger_legal_challenge(s1, i, d)
        ELSE [st EXCEPT !.first_nations[i].relationship_level = @ - 200]
    ELSE
        _trigger_legal_challenge(
            [st EXCEPT !.first_nations[i].relationship_level = 100,
                       !.first_nations[i].agreement_signed = FALSE,
                       !.reputation = @ - 400], i, d)

\* d: [treaty_choice, r_accept, legal_cost, r_court]
_trigger_treaty_negotiations(st, i, d) ==
    IF st.raised THEN st ELSE
    IF d.treaty_choice = 0 THEN
        IF st.budget >= 100000
        THEN [st EXCEPT !.budget = @ - 100000,
                        !.disturbance_cap = Scale(@, 8, 10),
                        !.first_nations[i].relationship_level = 800,
                        !.first_nations[i].agreement_signed = TRUE,
                        !.reputation = @ + 300]
        ELSE [st EXCEPT !.first_nations[i].relationship_level = @ - 200]
    ELSE IF d.treaty_choice = 1 THEN
        IF st.budget >= 50000
        THEN LET s1 == [st EXCEPT !.budget = @ - 50000,
                                  !.disturbance_cap = Scale(@, 9, 10),
                                  !.first_nations[i].relationship_level = @ + 100]
             IN IF d.r_accept < 600
                THEN [s1 EXCEPT !.first_nations[i].agreement_signed = TRUE]
                ELSE _trigger_legal_challenge(s1, i, d)
        ELSE [st EXCEPT !.first_nations[i].relationship_level = @ - 200]
    ELSE
        _trigger_legal_challenge(
            [st EXCEPT !.first_nations[i].relationship_level = 100,
                       !.first_nations[i].agreement_signed = FALSE,
                       !.reputation = @ - 400], i, d)

\* indices of the counterparties that need consultation, in list order
nations_needing_consultation(st) ==
    { i \in 1..Len(st.first_nations) :
        needs_consultation(st.first_nations[i], st.year) }

\* one pass of the comprehensive loop body for counterparty i
ComprehensiveOne(st, i, d) ==
    IF st.raised THEN st ELSE
    LET s1 == [st EXCEPT !.first_nations[i].last_consultation_year = st.year,
                         !.first_nations[i].relationship_level = @ + 200,
                         !.first_nations[i].active_negotiations = TRUE]
    IN IF s1.first_nations[i].treaty_area
       THEN IF s1.cumulative_disturbance > s1.disturbance_cap * 70
            THEN _trigger_treaty_negotiations(
                     [s1 EXCEPT !.first_nations[i].relationship_level = @ - 100],
                     i, d)
            ELSE [s1 EXCEPT !.first_nations[i].agreement_signed = TRUE]
       ELSE [s1 EXCEPT !.first_nations[i].agreement_signed = TRUE]

IndividualOne(st, i, d) ==
    LET s1 == [st EXCEPT !.first_nations[i].last_consultation_year = st.year,
                         !.first_nations[i].relationship_level = @ + 100]
    IN IF d.r_meet < 700
       THEN IF ~s1.first_nations[i].treaty_area
               \/ s1.cumulative_disturbance < s1.disturbance_cap * 80
            THEN [s1 EXCEPT !.first_nations[i].agreement_signed = TRUE]
            ELSE s1
       ELSE [s1 EXCEPT !.first_nations[i].consultation_cost = @ + 5000]

MinimalOne(st, i, d) ==
    IF st.raised THEN st ELSE
    LET s1 == [st EXCEPT !.first_nations[i].last_consultation_year = st.year,
                         !.first_nations[i].relationship_level = @ - 200]
    IN IF s1.first_nations[i].treaty_area
       THEN LET s2 == [s1 EXCEPT !.first_nations[i].agreement_signed = FALSE]
            IN IF d.r_legal < 300 THEN _trigger_legal_challenge(s2, i, d) ELSE s2
       ELSE s1

\* DelayOne without the legal challenge of a treaty nation
DelayOne_unchallenged(st, i, d) ==
    IF st.raised THEN st ELSE
    [st EXCEPT !.first_nations[i].relationship_level = @ - 300,
               !.first_nations[i].agreement_signed = FALSE]

DelayOne(st, i, d) ==
    IF st.raised THEN st ELSE
    LET s1 == [st EXCEPT !.first_nations[i].relationship_level = @ - 300,
                         !.first_nations[i].agreement_signed = FALSE]
    IN IF s1.first_nations[i].treaty_area
       THEN _trigger_legal_challenge(s1, i, d)
       ELSE s1

\* the loop body of the chosen approach for counterparty i
ConsultOne(st, i, d, choice) ==
    IF choice = 0 THEN ComprehensiveOne(st, i, d)
    ELSE IF choice = 1 THEN IndividualOne(st, i, d)
    ELSE IF choice = 2 THEN MinimalOne(st, i, d)
    ELSE DelayOne(st, i, d)

RECURSIVE ForEachNation(_, _, _, _, _)
\* for fn in nations_needing_consultation: body, in list order from index i;
\* need is the index set computed before the loop, D[i] the draws for i
ForEachNation(st, i, need, D, choice) ==
    IF i > Len(st.first_nations) THEN st
    ELSE ForEachNation(IF i \in need THEN ConsultOne(st, i, D[i], choice) ELSE st,
                       i + 1, need, D, choice)

RECURSIVE SumCost(_, _, _)
SumCost(st, i, need) ==
    IF i > Len(st.first_nations) THEN 0
    ELSE (IF i \in need THEN st.first_nations[i].consultation_cost ELSE 0)
         + SumCost(st, i + 1, need)

\* choice: the approach (0..3); D: per-counterparty draws
ongoing_first_nations_consultation(st, choice, D) ==
    LET need == nations_needing_consultation(st)
    IN IF need = {} THEN st
       ELSE IF choice = 0 THEN
           LET total_cost == 2 * SumCost(st, 1, need)
           IN IF st.budget < total_cost THEN st
              ELSE LET s1 == ForEachNation([st EXCEPT !.budget = @ - total_cost],
                                           1, need, D, 0)
                   IN IF s1.raised THEN s1
                      ELSE [s1 EXCEPT !.reputation = @ + 200,
                                      !.permit_bonus = @ + 150]
       ELSE IF choice = 1 THEN
           LET total_cost == SumCost(st, 1, need)
           IN IF st.budget < total_cost THEN st
              ELSE LET s1 == ForEachNation([st EXCEPT !.budget = @ - total_cost],
                                           1, need, D, 1)
                   IN [s1 EXCEPT !.reputation = @ + 100,
                                 !.permit_bonus = @ + 50]
       ELSE IF choice = 2 THEN
           LET notification_cost == Cardinality(need) * 2000
               s1 == ForEachNation([st EXCEPT !.budget = @ - notification_cost],
                                   1, need, D, 2)
           IN IF s1.raised THEN s1
              ELSE [s1 EXCEPT !.reputation = @ - 200,
                              !.permit_bonus = @ - 100]
       ELSE
           LET s1 == ForEachNation(st, 1, need, D, 3)
           IN IF s1.raised THEN s1
              ELSE [s1 EXCEPT !.reputation = @ - 300,
                              !.permit_bonus = @ - 200,
                              !.social_license_maintained = FALSE]

----------------------------------------------------------------------------
(* Harvest planning (forestry_game_modular.py)                             *)

\* f"{region}-{year}Q{quarter}-{count:02d}", kept as its parts; sanitation
\* counts the "SANITATION-" prefixes
BlockId(st, count) ==
    [ sanitation |-> 0, region |-> st.region, year |-> st.year,
      quarter |-> st.quarter, count |-> count ]

\* the categories random.choices may return for a remaining volume
SizeCategories(remaining) ==
    IF remaining < 5000 THEN {"tiny"}
    ELSE IF remaining < 12000 THEN {"tiny"}
    ELSE IF remaining < 25000 THEN {"tiny", "small"}
    ELSE IF remaining < 45000 THEN {"tiny", "small", "medium"}
    ELSE IF remaining < 80000 THEN {"small", "medium", "large"}
    ELSE {"medium", "large", "massive"}

size_ranges ==
    [ tiny |-> <<3000, 12000>>, small |-> <<12000, 25000>>,
      medium |-> <<25000, 45000>>, large |-> <<45000, 80000>>,
      massive |-> <<80000, 150000>> ]

\* target sizes: forced, or the ends of random.randint(min_size, effective_max)
\* that the menu picks allows
TargetSizes(category, remaining, picks) ==
    IF remaining < 5000 THEN {remaining}
    ELSE IF remaining <= size_ranges[category][1] THEN {remaining}
    ELSE { IF p = "min" THEN size_ranges[category][1]
           ELSE Min(size_ranges[category][2], remaining) : p \in picks }

Priorities(category) ==
    IF category = "massive" THEN {3}
    ELSE IF category = "large" THEN {2, 3}
    ELSE IF category = "medium" THEN {1, 2, 3}
    ELSE {1, 2}

\* old_growth_risk in thousandths
old_growth_risk(category) ==
    IF category = "massive" THEN 800
    ELSE IF category = "large" THEN 500
    ELSE IF category = "medium" THEN 300
    ELSE 100

\* the draws of one loop pass: <<category, target_size, priority, roll>>;
\* m.sizes = "least" keeps only the category of the smallest blocks
BlockDraws(remaining, m) ==
    UNION { { <<c, z, p, r>> : z \in TargetSizes(c, remaining, m.picks),
                               p \in Priorities(c) \cap m.priorities,
                               r \in m.og_rolls } :
            c \in { x \in SizeCategories(remaining) :
                      m.sizes = "least"
                         => \A y \in SizeCategories(remaining) :
                               size_ranges[x][1] <= size_ranges[y][1] } }

RECURSIVE PlanOutcomes(_, _, _, _)
\* the block lists the while loop can build from block number count + 1 on;
\* m: [picks, sizes, priorities, og_rolls, plan_blocks] restricts the draws.
\* Lists of more than m.plan_blocks blocks are not explored.
PlanOutcomes(st, remaining, count, m) ==
    IF ~(remaining > 0 /\ count < 20) THEN { <<>> }
    ELSE IF count >= m.plan_blocks THEN {}
    ELSE UNION {
           { <<HarvestBlock(BlockId(st, count + 1), t[2], st.year,
                            t[4] < old_growth_risk(t[1]), t[3])>> \o rest :
               rest \in PlanOutcomes(st, remaining - t[2], count + 1, m) } :
           t \in BlockDraws(remaining, m) }

\* planned_volumes of a company whose mill takes the whole allowable cut
planned_volumes_uncapped(st) ==
    LET available_cut == st.annual_allowable_cut
    IN << Scale(available_cut, 6, 10), Scale(available_cut, 8, 10),
          available_cut >>

planned_volumes(st) ==
    LET available_cut == Min(st.annual_allowable_cut, st.mill_capacity)
    IN << Scale(available_cut, 6, 10), Scale(available_cut, 8, 10),
          available_cut >>

\* a plan that restarts the disturbance count at the planned volume
plan_harvest_schedule_restart(st, idx, new_blocks) ==
    [st EXCEPT !.harvest_blocks = @ \o new_blocks,
               !.cumulative_disturbance = planned_volumes(st)[idx + 1]]

\* idx: the volume option; new_blocks: one member of PlanOutcomes
plan_harvest_schedule(st, idx, new_blocks) ==
    [st EXCEPT !.harvest_blocks = @ \o new_blocks,
               !.cumulative_disturbance = @ + planned_volumes(st)[idx + 1]]

----------------------------------------------------------------------------
(* Permits (permits.py)                                                    *)

risk_score(b) ==
    (IF b.old_growth_affected THEN 3 ELSE 0)
    + (IF ~b.heritage_cleared THEN 2 ELSE 0)
    + (IF ~b.first_nations_agreement THEN 4 ELSE 0)
    + (IF b.disaster_affected THEN 1 ELSE 0)

\* blocks_to_submit, as positions in state.harvest_blocks
\* blocks_to_submit without the test on the status
blocks_to_submit_any(st) ==
    SortedSeq(1..Len(st.harvest_blocks))

blocks_to_submit(st) ==
    SortedSeq({ k \in 1..Len(st.harvest_blocks) :
                  st.harvest_blocks[k].permit_status = "pending" })

\* blocks_to_process for a strategy, as positions in state.harvest_blocks;
\* tokens are the numbers typed for the custom selection
blocks_to_process(st, strategy, tokens) ==
    LET avail == blocks_to_submit(st)
        keep(P(_)) == SortedSeq({ k \in Range(avail) : P(st.harvest_blocks[k]) })
        typed == SelectSeq(tokens, LAMBDA x : 0 <= x - 1 /\ x - 1 < Len(avail))
    IN IF strategy = 0 THEN avail
       ELSE IF strategy = 1 THEN keep(LAMBDA b : b.priority >= 3)
       ELSE IF strategy = 2 THEN keep(LAMBDA b : risk_score(b) <= 2)
       ELSE IF strategy = 3 THEN [j \in 1..Len(typed) |-> avail[typed[j]]]
       ELSE <<>>

submission_cost(st, sel) ==
    Len(sel) * 5000
    + 10000 * Cardinality({ j \in 1..Len(sel) :
                 ~st.harvest_blocks[sel[j]].first_nations_agreement
                 \/ st.harvest_blocks[sel[j]].old_growth_affected })

\* base_time of one application before the random part
base_time(st, b) ==
    LET t == st.permit_backlog_days
             + (IF b.old_growth_affected THEN 60 ELSE 0)
             + (IF ~b.heritage_cleared THEN 30 ELSE 0)
             + (IF ~b.first_nations_agreement THEN 90 ELSE 0)
             + (IF b.disaster_affected THEN 20 ELSE 0)
    IN IF b.priority >= 3 THEN Scale(t, 8, 10)
       ELSE IF b.priority = 1 THEN Scale(t, 12, 10)
       ELSE t

RECURSIVE SubmitEach(_, _, _, _)
\* the loop over blocks_to_process from entry j on; noise[j] is the
\* random.randint(-30, 60) of entry j
SubmitEach(st, sel, j, noise) ==
    IF j > Len(sel) THEN st
    ELSE LET b == st.harvest_blocks[sel[j]]
         IN SubmitEach(
              [st EXCEPT !.harvest_blocks[sel[j]].permit_submitted = st.year,
                         !.harvest_blocks[sel[j]].processing_time =
                             base_time(st, b) + noise[j]],
              sel, j + 1, noise)

\* d: [strategy, tokens, invalid, confirm, noise]; invalid: a typed token
\* is not a number (ValueError)
\* selective_permit_submission without the "Insufficient budget" return
selective_permit_submission_unchecked(st, d) ==
    LET sel == blocks_to_process(st, d.strategy, d.tokens)
        total_cost == submission_cost(st, sel)
    IN IF blocks_to_submit(st) = <<>> THEN st
       ELSE IF d.strategy = 3 /\ d.invalid THEN st
       ELSE IF sel = <<>> THEN st
       ELSE IF d.confirm = 0
            THEN SubmitEach([st EXCEPT !.budget = @ - total_cost], sel, 1, d.noise)
            ELSE st

selective_permit_submission(st, d) ==
    LET sel == blocks_to_process(st, d.strategy, d.tokens)
        total_cost == submission_cost(st, sel)
    IN IF blocks_to_submit(st) = <<>> THEN st
       ELSE IF d.strategy = 3 /\ d.invalid THEN st
       ELSE IF sel = <<>> THEN st
       ELSE IF st.budget < total_cost THEN st
       ELSE IF d.confirm = 0
            THEN SubmitEach([st EXCEPT !.budget = @ - total_cost], sel, 1, d.noise)
            ELSE st

\* the ids of the blocks for which selective_permit_submission runs the body
\* of its submission loop (permits.py:135-156)
submitted_now(st, d) ==
    IF selective_permit_submission(st, d) = st THEN {}
    ELSE { st.harvest_blocks[k].id :
             k \in Range(blocks_to_process(st, d.strategy, d.tokens)) }

\* pending_blocks without the test on the status
pending_blocks_submitted(st) ==
    { k \in 1..Len(st.harvest_blocks) :
        st.harvest_blocks[k].permit_submitted > 0 }

\* positions of the applications process_permits looks at
pending_blocks(st) ==
    { k \in 1..Len(st.harvest_blocks) :
        st.harvest_blocks[k].permit_status = "pending"
        /\ st.harvest_blocks[k].permit_submitted > 0 }

\* days_elapsed that counts the quarters of the current year only
days_elapsed_this_year(st, b) == (st.quarter - 1) * 90

days_elapsed(st, b) ==
    ((st.year - b.permit_submitted) * 4 + (st.quarter - 1)) * 90

\* approval_chance without the bonus for active certifications
approval_chance_uncertified(st, b) ==
    7000 + 10 * st.permit_bonus + 3 * (st.reputation - 500)
    - (IF b.old_growth_affected /\ st.old_growth_deferrals_expanded
       THEN 4000 ELSE 0)
    - (IF ~b.first_nations_agreement THEN 3000 ELSE 0)
    - (IF st.cumulative_disturbance > st.disturbance_cap * 100
       THEN 5000 ELSE 0)
    + (IF b.disaster_affected THEN 1000 ELSE 0)

\* approval_chance * 10000
approval_chance(st, b) ==
    7000 + 10 * st.permit_bonus + 3 * (st.reputation - 500)
    - (IF b.old_growth_affected /\ st.old_growth_deferrals_expanded
       THEN 4000 ELSE 0)
    - (IF ~b.first_nations_agreement THEN 3000 ELSE 0)
    - (IF st.cumulative_disturbance > st.disturbance_cap * 100
       THEN 5000 ELSE 0)
    + (IF b.disaster_affected THEN 1000 ELSE 0)
    + Min(2000, Len(get_active_certifications(st)) * 1000)

RECURSIVE DecideEach(_, _, _, _)
\* the loop over pending_blocks (the position set todo, computed before the
\* loop) from position k on; R[k] is the random.random() drawn for block k
DecideEach(st, todo_set, k, R) ==
    IF k > Len(st.harvest_blocks) THEN st
    ELSE LET b == st.harvest_blocks[k]
         IN IF k \in todo_set /\ days_elapsed(st, b) >= b.processing_time
            THEN IF R[k] * 10 < approval_chance(st, b)
                 THEN DecideEach(
                        [st EXCEPT !.harvest_blocks[k].permit_status = "approved"],
                        todo_set, k + 1, R)
                 ELSE DecideEach(
                        [st EXCEPT !.harvest_blocks[k].permit_status = "denied",
                                   !.reputation = @ - 50],
                        todo_set, k + 1, R)
            ELSE DecideEach(st, todo_set, k + 1, R)

\* process_permits that counts a pass without applications as a quarter of
\* backlog
process_permits_backlog(st, R) ==
    IF pending_blocks(st) = {}
    THEN [st EXCEPT !.permit_backlog_days = @ + 90]
    ELSE DecideEach(st, pending_blocks(st), 1, R)

process_permits(st, R) == DecideEach(st, pending_blocks(st), 1, R)

\* positions on which process_permits would decide now
due_blocks(st) ==
    { k \in pending_blocks(st) :
        days_elapsed(st, st.harvest_blocks[k])
            >= st.harvest_blocks[k].processing_time }

----------------------------------------------------------------------------
(* Natural disasters and sanitation harvesting (events.py)                 *)

\* a harvest that takes the first approved block only
approved_positions_first(st) ==
    LET all == { k \in 1..Len(st.harvest_blocks) :
                   st.harvest_blocks[k].permit_status = "approved" }
    IN { k \in all : \A j \in all : k <= j }

\* a harvest that also takes the suspended blocks
approved_positions_suspended(st) ==
    { k \in 1..Len(st.harvest_blocks) :
        st.harvest_blocks[k].permit_status \in {"approved", "delayed"} }

approved_positions(st) ==
    { k \in 1..Len(st.harvest_blocks) :
        st.harvest_blocks[k].permit_status = "approved" }

\* the kind of disaster a disaster_chance selects
disaster_kind(disaster_chance) ==
    IF disaster_chance < 80 THEN "beetle_kill"
    ELSE IF disaster_chance < 120 THEN "windstorm"
    ELSE IF disaster_chance < 150 THEN "drought"
    ELSE IF disaster_chance < 170 THEN "flood"
    ELSE "none"

\* representative results of random.uniform for the loss_percent of a kind
LossPercents ==
    [ beetle_kill |-> {200, 600}, windstorm |-> {100, 300},
      drought |-> {50, 150}, flood |-> {150, 250}, none |-> {} ]

\* the possible draws of one disaster: functions from the affected positions
\* (random.sample, or all blocks for a drought) to their loss_percent
DisasterHits(approved, kind, losses) ==
    LET n == Cardinality(approved)
        size == IF kind = "beetle_kill" THEN Min(2, n)
                ELSE IF kind = "drought" THEN n
                ELSE IF kind = "none" THEN 0
                ELSE Min(1, n)
    IN UNION { [S -> LossPercents[kind] \cap losses] :
               S \in { T \in SUBSET approved : Cardinality(T) = size } }

RECURSIVE SumOver(_, _)
\* sum of a function of integers over its whole domain
SumOver(f, S) ==
    IF S = {} THEN 0
    ELSE LET x == CHOOSE y \in S : TRUE IN f[x] + SumOver(f, S \ {x})

\* d: [sanitation_choice]
_offer_sanitation_harvesting(st, approved, d) ==
    LET blocks == st.harvest_blocks
        beetle_blocks == SortedSeq({ k \in approved :
                             blocks[k].disaster_type = "beetle_kill" })
        total_beetle_volume ==
            SumSeq([j \in 1..Len(beetle_blocks) |-> blocks[beetle_blocks[j]].volume_m3])
        recoverable_volume == Scale(total_beetle_volume, 7, 10)
        reduced_stumpage_cost == recoverable_volume * 15
        \* int(recoverable_volume * revenue_per_m3 * 0.6 * 0.8)
        immediate_revenue == Scale(recoverable_volume * st.revenue_per_m3, 48, 100)
        sanitation_block(b) ==
            [HarvestBlock([b.id EXCEPT !.sanitation = @ + 1],
                          Scale(b.volume_m3, 7, 10), st.year, FALSE, 1)
               EXCEPT !.permit_status = "approved", !.disaster_affected = TRUE,
                      !.disaster_type = "beetle_kill"]
    IN IF d.sanitation_choice = 0 THEN
           IF st.budget >= reduced_stumpage_cost
           THEN [st EXCEPT !.budget = @ - reduced_stumpage_cost + immediate_revenue,
                           !.harvest_blocks = @ \o
                               [j \in 1..Len(beetle_blocks) |->
                                   sanitation_block(blocks[beetle_blocks[j]])],
                           !.total_revenue = @ + immediate_revenue,
                           !.reputation = @ + 100]
           ELSE st
       ELSE IF d.sanitation_choice = 1 THEN
           [st EXCEPT !.biodiversity_score = @ + 20]
       ELSE
           [st EXCEPT !.harvest_blocks =
               [k \in 1..Len(blocks) |->
                   IF k \in Range(beetle_blocks)
                   THEN [blocks[k] EXCEPT !.volume_loss_percent = @ + 50]
                   ELSE blocks[k]]]

\* d: [disaster_chance, hit, sanitation_choice]; the result carries the
\* returned volume loss factor (thousandths) next to the new state
natural_disasters_during_harvest(st, approved, d) ==
    LET kind == disaster_kind(d.disaster_chance)
        blocks == st.harvest_blocks
        marked == [k \in 1..Len(blocks) |->
                     IF k \in DOMAIN d.hit
                     THEN [blocks[k] EXCEPT !.disaster_affected = TRUE,
                                            !.disaster_type = kind,
                                            !.volume_loss_percent = d.hit[k]]
                     ELSE blocks[k]]
        s1 == [st EXCEPT !.harvest_blocks = marked]
        \* total_volume_loss * 1000
        total_volume_loss ==
            SumOver([k \in DOMAIN d.hit |-> blocks[k].volume_m3 * d.hit[k]],
                    DOMAIN d.hit)
        total_approved_volume ==
            SumOver([k \in approved |-> blocks[k].volume_m3], approved)
    IN IF approved = {} \/ kind = "none" THEN [st |-> st, factor |-> 0]
       ELSE IF total_approved_volume > 0
       THEN [ st |-> IF \E k \in approved :
                          marked[k].disaster_type = "beetle_kill"
                     THEN _offer_sanitation_harvesting(s1, approved, d)
                     ELSE s1,
              factor |-> total_volume_loss \div total_approved_volume ]
       ELSE [st |-> s1, factor |-> 0]

----------------------------------------------------------------------------
(* Harvest operations (forestry_game_modular.py)                           *)

\* get_certification_revenue_bonus, thousandths
get_certification_revenue_bonus(st) ==
    LET act == get_active_certifications(st)
    IN SumSeq([j \in 1..Len(act) |-> act[j].revenue_bonus])

\* conduct_harvest_operations counting every harvest as a profitable year
conduct_harvest_operations_counting(st, d) ==
    LET approved_blocks == approved_positions(st)
        nd == natural_disasters_during_harvest(st, approved_blocks, d)
        s1 == nd.st
        volume_loss_factor == nd.factor
        effective_volume(b) ==
            IF b.disaster_affected
            THEN Scale(b.volume_m3, 1000 - b.volume_loss_percent, 1000)
            ELSE b.volume_m3
        total_volume ==
            SumOver([k \in approved_blocks |->
                        effective_volume(s1.harvest_blocks[k])], approved_blocks)
        effective_revenue_per_m3 ==
            Scale(s1.revenue_per_m3,
                  1000 + get_certification_revenue_bonus(s1), 1000)
        revenue0 == total_volume * effective_revenue_per_m3
        costs0 == total_volume * s1.operating_cost_per_m3
        costs1 == IF volume_loss_factor > 0
                  THEN Scale(costs0, 2000 + volume_loss_factor, 2000)
                  ELSE costs0
        revenue == IF d.weather_event < 100 THEN Scale(revenue0, 85, 100)
                   ELSE IF d.weather_event < 250 THEN Scale(revenue0, 95, 100)
                   ELSE revenue0
        costs == IF d.weather_event < 100 THEN Scale(costs1, 115, 100)
                 ELSE IF d.weather_event < 250 THEN Scale(costs1, 105, 100)
                 ELSE costs1
        net_profit == revenue - costs
        gone == { s1.harvest_blocks[k].id : k \in approved_blocks }
    IN IF approved_blocks = {} THEN st
       ELSE [s1 EXCEPT !.budget = @ + net_profit,
                       !.total_revenue = @ + revenue,
                       !.total_costs = @ + costs,
                       !.quarterly_profit = net_profit,
                       !.consecutive_profitable_years = @ + 1,
                       !.jobs_created = @ + total_volume \div 1000,
                       !.harvest_blocks = RemoveWhere(@, gone)]

\* d: [disaster_chance, hit, sanitation_choice, weather_event]
conduct_harvest_operations(st, d) ==
    LET approved_blocks == approved_positions(st)
        nd == natural_disasters_during_harvest(st, approved_blocks, d)
        s1 == nd.st
        volume_loss_factor == nd.factor
        effective_volume(b) ==
            IF b.disaster_affected
            THEN Scale(b.volume_m3, 1000 - b.volume_loss_percent, 1000)
            ELSE b.volume_m3
        total_volume ==
            SumOver([k \in approved_blocks |->
                        effective_volume(s1.harvest_blocks[k])], approved_blocks)
        effective_revenue_per_m3 ==
            Scale(s1.revenue_per_m3,
                  1000 + get_certification_revenue_bonus(s1), 1000)
        revenue0 == total_volume * effective_revenue_per_m3
        costs0 == total_volume * s1.operating_cost_per_m3
        costs1 == IF volume_loss_factor > 0
                  THEN Scale(costs0, 2000 + volume_loss_factor, 2000)
                  ELSE costs0
        revenue == IF d.weather_event < 100 THEN Scale(revenue0, 85, 100)
                   ELSE IF d.weather_event < 250 THEN Scale(revenue0, 95, 100)
                   ELSE revenue0
        costs == IF d.weather_event < 100 THEN Scale(costs1, 115, 100)
                 ELSE IF d.weather_event < 250 THEN Scale(costs1, 105, 100)
                 ELSE costs1
        net_profit == revenue - costs
        gone == { s1.harvest_blocks[k].id : k \in approved_blocks }
    IN IF approved_blocks = {} THEN st
       ELSE [s1 EXCEPT !.budget = @ + net_profit,
                       !.total_revenue = @ + revenue,
                       !.total_costs = @ + costs,
                       !.quarterly_profit = net_profit,
                       !.consecutive_profitable_years =
                           IF net_profit > 0 THEN @ + 1 ELSE 0,
                       !.jobs_created = @ + total_volume \div 1000,
                       !.harvest_blocks = RemoveWhere(@, gone)]

----------------------------------------------------------------------------
(* Market and forest health (events.py), quarter end and calendar          *)
(* (forestry_game_modular.py)                                              *)

\* price_change in thousandths
market_fluctuations(st, price_change) ==
    IF price_change > 50 \/ price_change < -50
    THEN [st EXCEPT !.revenue_per_m3 = Scale(@, 1000 + price_change, 1000)]
    ELSE st

forest_health_monitoring(st) ==
    LET blocks == Range(st.harvest_blocks)
        beetle_affected_blocks ==
            { b \in blocks : b.disaster_affected
                              /\ b.disaster_type = "beetle_kill" }
        disaster_affected == Cardinality({ b \in blocks : b.disaster_affected })
        s1 == IF Cardinality(beetle_affected_blocks) >= 3
              THEN [st EXCEPT !.aac_decline_rate = @ + 10] ELSE st
    IN IF disaster_affected > 0
       THEN [s1 EXCEPT !.biodiversity_score = Max(0, @ - disaster_affected * 20)]
       ELSE s1

_forest_health_action(st) ==
    [forest_health_monitoring(st) EXCEPT !.biodiversity_score = @ + 50]

quarter_end_summary(st) ==
    IF st.quarter = 4
    THEN [st EXCEPT !.annual_allowable_cut =
                        Scale(@, 1000 - st.aac_decline_rate, 1000)]
    ELSE st

\* advance_quarter with the years-operated count forgotten on the wrap
advance_quarter_no_count(st) ==
    IF st.quarter + 1 > 4
    THEN [st EXCEPT !.quarter = 1, !.year = @ + 1]
    ELSE [st EXCEPT !.quarter = @ + 1]

advance_quarter(st) ==
    IF st.quarter + 1 > 4
    THEN [st EXCEPT !.quarter = 1, !.year = @ + 1, !.years_operated = @ + 1]
    ELSE [st EXCEPT !.quarter = @ + 1]

\* an evaluator that knows bankruptcy only
check_win_conditions_solvent(st) ==
    IF st.budget < 0 THEN <<TRUE, "BANKRUPTCY">> ELSE <<FALSE, "">>

\* the (game_over, message) pair; the message is cut to its title
check_win_conditions(st) ==
    IF st.consecutive_profitable_years >= 5 /\ st.budget > 3000000
       /\ st.jobs_created > 200
    THEN <<TRUE, "ECONOMIC SUSTAINABILITY CHAMPION">>
    ELSE IF st.reputation > 800 /\ st.biodiversity_score > 700
            /\ st.social_license_maintained
            /\ st.cumulative_disturbance < st.disturbance_cap * 60
    THEN <<TRUE, "ENVIRONMENTAL STEWARD">>
    ELSE IF (\A k \in 1..Len(st.first_nations) :
                st.first_nations[k].relationship_level > 800)
            /\ (\A k \in 1..Len(st.first_nations) :
                st.first_nations[k].agreement_signed)
            /\ st.reputation > 700 /\ st.years_operated >= 5
            /\ st.total_revenue > 1000000
    THEN <<TRUE, "RECONCILIATION LEADER">>
    ELSE IF Len(get_active_certifications(st)) >= 2 /\ st.reputation > 700
            /\ st.consecutive_profitable_years >= 3
    THEN <<TRUE, "CERTIFICATION LEADER">>
    ELSE IF st.years_operated >= 10 /\ st.budget > 500000
    THEN <<TRUE, "INDUSTRY SURVIVOR">>
    ELSE IF st.budget < 0 THEN <<TRUE, "BANKRUPTCY">>
    ELSE IF st.reputation < 100 THEN <<TRUE, "REPUTATION COLLAPSE">>
    ELSE IF st.cumulative_disturbance > st.disturbance_cap * 120
    THEN <<TRUE, "REGULATORY SHUTDOWN">>
    ELSE <<FALSE, "">>

----------------------------------------------------------------------------
(* Certification (certification.py)                                        *)

cert_info ==
    [ FSC  |-> [cost |-> 150000, annual |-> 25000, premium |-> 200,
                reputation |-> 150],
      PEFC |-> [cost |-> 100000, annual |-> 18000, premium |-> 150,
                reputation |-> 100],
      SFI  |-> [cost |-> 80000, annual |-> 15000, premium |-> 120,
                reputation |-> 80] ]

\* available_certs offering every kind, held or not
available_certs_every(st) == CertificationType

\* the kinds with no active record, in enumeration order
available_certs(st) ==
    SelectSeq(CertificationType,
              LAMBDA t : ~\E k \in 1..Len(st.certifications) :
                            st.certifications[k].active
                            /\ st.certifications[k].cert_type = t)

\* _check_certification_requirements without the licence test
_check_certification_requirements_unlicensed(st, cert_type) ==
    LET fns == st.first_nations
        blocks == st.harvest_blocks
    IN IF cert_type = "FSC" THEN
           /\ st.reputation >= 600
           /\ st.biodiversity_score >= 500
           /\ st.cumulative_disturbance < st.disturbance_cap * 80
           /\ \A k \in 1..Len(fns) : fns[k].relationship_level >= 500
           /\ ~\E k \in 1..Len(blocks) :
                  k > Len(blocks) - 5 /\ blocks[k].disaster_affected
       ELSE IF cert_type = "PEFC" THEN
           /\ st.reputation >= 400
           /\ st.biodiversity_score >= 400
           /\ st.cumulative_disturbance < st.disturbance_cap * 90
           /\ \E k \in 1..Len(fns) : fns[k].agreement_signed
       ELSE
           /\ st.reputation >= 300
           /\ st.biodiversity_score >= 300

_check_certification_requirements(st, cert_type) ==
    LET fns == st.first_nations
        blocks == st.harvest_blocks
    IN IF cert_type = "FSC" THEN
           /\ st.reputation >= 600
           /\ st.biodiversity_score >= 500
           /\ st.cumulative_disturbance < st.disturbance_cap * 80
           /\ \A k \in 1..Len(fns) : fns[k].relationship_level >= 500
           /\ ~\E k \in 1..Len(blocks) :
                  k > Len(blocks) - 5 /\ blocks[k].disaster_affected
       ELSE IF cert_type = "PEFC" THEN
           /\ st.reputation >= 400
           /\ st.biodiversity_score >= 400
           /\ st.cumulative_disturbance < st.disturbance_cap * 90
           /\ \E k \in 1..Len(fns) : fns[k].agreement_signed
       ELSE
           /\ st.reputation >= 300
           /\ st.biodiversity_score >= 300
           /\ st.social_license_maintained

\* choice: the menu entry (Len(available_certs) is "skip")
certification_opportunities(st, choice) ==
    LET avail == available_certs(st)
    IN IF avail = <<>> THEN st
       ELSE IF choice < Len(avail) THEN
           LET cert_type == avail[choice + 1]
               info == cert_info[cert_type]
           IN IF st.budget < info.cost THEN st
              ELSE IF _check_certification_requirements(st, cert_type)
              THEN [st EXCEPT !.budget = @ - info.cost,
                              !.certifications = Append(@,
                                  Certification(cert_type, st.year, info.annual,
                                                info.premium, info.reputation)),
                              !.reputation = @ + info.reputation]
              ELSE st
       ELSE st

\* d: [choice, r_appeal]; k: position of the certification
_handle_audit_failure(st, k, d) ==
    LET cert == st.certifications[k]
    IN IF d.choice = 0 THEN
           IF st.budget >= 50000
           THEN [st EXCEPT !.budget = @ - 50000, !.reputation = @ + 50,
                           !.biodiversity_score = @ + 50]
           ELSE [st EXCEPT !.certifications[k].active = FALSE]
       ELSE IF d.choice = 1 THEN
           [st EXCEPT !.certifications[k].active = FALSE,
                      !.reputation = @ - Scale(cert.reputation_bonus, 3, 10)]
       ELSE
           IF st.budget >= 25000
           THEN IF d.r_appeal < 400
                THEN [st EXCEPT !.budget = @ - 25000]
                ELSE [st EXCEPT !.budget = @ - 25000,
                                !.certifications[k].active = FALSE,
                                !.reputation = @ - Scale(cert.reputation_bonus, 2, 10)]
           ELSE [st EXCEPT !.certifications[k].active = FALSE]

active_positions(st) ==
    SortedSeq({ k \in 1..Len(st.certifications) : st.certifications[k].active })

annual_cost_of(st, pos) ==
    SumSeq([j \in 1..Len(pos) |-> st.certifications[pos[j]].annual_cost])

RECURSIVE AuditEach(_, _, _, _)
\* the audit loop over the list pos from entry j on; A[k]: the answers for
\* the certification at position k
AuditEach(st, pos, j, A) ==
    IF j > Len(pos) THEN st
    ELSE AuditEach(
           IF ~_check_certification_requirements(
                   st, st.certifications[pos[j]].cert_type)
           THEN _handle_audit_failure(st, pos[j], A[pos[j]])
           ELSE st,
           pos, j + 1, A)

\* a drop that costs the whole reputation bonus
dropped_cert_whole(st, k) ==
    [st EXCEPT !.certifications[k].active = FALSE,
               !.reputation = @ - st.certifications[k].reputation_bonus]

\* the certification at position k dropped by the player
dropped_cert(st, k) ==
    [st EXCEPT !.certifications[k].active = FALSE,
               !.reputation = @ - Scale(st.certifications[k].reputation_bonus,
                                        5, 10)]

\* maintain_certifications paying the annual cost whatever the budget
maintain_certifications_on_credit(st, d) ==
    LET active_certs == active_positions(st)
        short == st.budget < annual_cost_of(st, active_certs)
        s1 == IF short /\ d.drop_choice < Len(active_certs)
              THEN dropped_cert(st, active_certs[d.drop_choice + 1])
              ELSE st
        total_annual_cost ==
            IF short /\ d.drop_choice < Len(active_certs)
            THEN annual_cost_of(s1, active_positions(s1))
            ELSE annual_cost_of(st, active_certs)
    IN IF active_certs = <<>> THEN st
       ELSE IF s1.budget >= total_annual_cost \/ short
       THEN AuditEach([s1 EXCEPT !.budget = @ - total_annual_cost],
                      active_positions(s1), 1, d.audit)
       ELSE [s1 EXCEPT !.certifications =
                          [k \in 1..Len(s1.certifications) |->
                              IF k \in Range(active_certs)
                              THEN [s1.certifications[k] EXCEPT !.active = FALSE]
                              ELSE s1.certifications[k]],
                       !.reputation = @ - 300]

\* d: [drop_choice, audit]
maintain_certifications(st, d) ==
    LET active_certs == active_positions(st)
        short == st.budget < annual_cost_of(st, active_certs)
        s1 == IF short /\ d.drop_choice < Len(active_certs)
              THEN dropped_cert(st, active_certs[d.drop_choice + 1])
              ELSE st
        total_annual_cost ==
            IF short /\ d.drop_choice < Len(active_certs)
            THEN annual_cost_of(s1, active_positions(s1))
            ELSE annual_cost_of(st, active_certs)
    IN IF active_certs = <<>> THEN st
       ELSE IF s1.budget >= total_annual_cost
       THEN AuditEach([s1 EXCEPT !.budget = @ - total_annual_cost],
                      active_positions(s1), 1, d.audit)
       ELSE [s1 EXCEPT !.certifications =
                          [k \in 1..Len(s1.certifications) |->
                              IF k \in Range(active_certs)
                              THEN [s1.certifications[k] EXCEPT !.active = FALSE]
                              ELSE s1.certifications[k]],
                       !.reputation = @ - 300]

----------------------------------------------------------------------------
(* Liaison (liaison.py); a liaison is identified by its bias               *)

liaison_types ==
    << [bias |-> "indigenous", cost |-> 80000, boost |-> 200],
       [bias |-> "corporate", cost |-> 60000, boost |-> 50],
       [bias |-> "balanced", cost |-> 120000, boost |-> 100] >>

liaison_cost(bias) ==
    IF bias = "indigenous" THEN 80000
    ELSE IF bias = "corporate" THEN 60000 ELSE 120000

\* choice: the menu entry (3 is "skip")
_offer_liaison_hiring(st, choice) ==
    IF choice < Len(liaison_types) THEN
        LET chosen_liaison == liaison_types[choice + 1]
            fns == st.first_nations
        IN IF st.budget < chosen_liaison.cost THEN st
           ELSE [st EXCEPT !.budget = @ - chosen_liaison.cost,
                           !.fn_liaison = chosen_liaison.bias,
                           !.first_nations =
                               [k \in 1..Len(fns) |->
                                   [fns[k] EXCEPT !.relationship_level =
                                        @ + chosen_liaison.boost]],
                           !.reputation = @ + 100]
    ELSE st

Suggestion(cost, fn_impact, reputation_impact, success_chance) ==
    [ cost |-> cost, fn_impact |-> fn_impact,
      reputation_impact |-> reputation_impact,
      success_chance |-> success_chance ]

_generate_suggestions(st, bias) ==
    LET fns == st.first_nations
        poor_relations ==
            \E k \in 1..Len(fns) : fns[k].relationship_level < 400
        strained_relations ==
            \E k \in 1..Len(fns) : 400 <= fns[k].relationship_level
                                    /\ fns[k].relationship_level < 600
    IN (IF poor_relations
        THEN IF bias = "indigenous"
             THEN <<Suggestion(50000, 300, 150, 800)>>
             ELSE <<Suggestion(75000, 200, 100, 600)>>
        ELSE <<>>)
       \o
       (IF strained_relations
        THEN IF bias = "corporate" THEN <<Suggestion(40000, 150, 50, 700)>>
             ELSE IF bias = "indigenous"
             THEN <<Suggestion(25000, 200, 100, 850)>>
             ELSE <<Suggestion(35000, 180, 80, 750)>>
        ELSE <<>>)
       \o
       (IF st.cumulative_disturbance > st.disturbance_cap * 60
           /\ bias = "indigenous"
        THEN <<Suggestion(60000, 250, 200, 900)>> ELSE <<>>)
       \o
       (IF get_active_certifications(st) = <<>> /\ st.reputation > 500
           /\ bias # "corporate"
        THEN <<Suggestion(80000, 100, 250, 800)>> ELSE <<>>)

RECURSIVE ExecuteEach(_, _, _, _, _)
\* the loop of _execute_suggestions from entry j on; rolls[j] is the
\* random.random() of entry j
ExecuteEach(st, suggestions, j, rolls, bias) ==
    IF j > Len(suggestions) THEN st
    ELSE LET s == suggestions[j]
             fns == st.first_nations
             ok == rolls[j] < s.success_chance
             gain == IF ok THEN s.fn_impact ELSE Scale(s.fn_impact, 5, 10)
             raised_fns ==
                 [k \in 1..Len(fns) |->
                     [fns[k] EXCEPT !.relationship_level = Min(1000, @ + gain)]]
             s1 == [st EXCEPT !.first_nations = raised_fns,
                              !.reputation = @ + (IF ok THEN s.reputation_impact
                                  ELSE Scale(s.reputation_impact, 5, 10))]
             s2 == IF ok /\ bias = "indigenous" /\ s.fn_impact > 200
                   THEN [s1 EXCEPT !.reputation = @ + 50]
                   ELSE IF ok /\ bias = "balanced"
                   THEN [s1 EXCEPT !.biodiversity_score = @ + 20]
                   ELSE s1
         IN ExecuteEach(s2, suggestions, j + 1, rolls, bias)

_execute_suggestions(st, suggestions, rolls, bias) ==
    LET total_cost == SumSeq([j \in 1..Len(suggestions) |-> suggestions[j].cost])
    IN ExecuteEach([st EXCEPT !.budget = @ - total_cost],
                   suggestions, 1, rolls, bias)

\* the suggestions the player's answers approve: answers[j] is 0 (yes),
\* 1 (no), 2 (details, then yes) or 3 (details, then no)
approved_suggestions(st, suggestions, answers) ==
    LET pos == SortedSeq({ j \in 1..Len(suggestions) :
                   answers[j] \in {0, 2} /\ st.budget >= suggestions[j].cost })
    IN [i \in 1..Len(pos) |-> suggestions[pos[i]]]

\* d: [answers, rolls]
_liaison_suggestions(st, d) ==
    LET suggestions == _generate_suggestions(st, st.fn_liaison)
        approved == approved_suggestions(st, suggestions, d.answers)
    IN IF suggestions = <<>> \/ approved = <<>> THEN st
       ELSE _execute_suggestions(st, approved, d.rolls, st.fn_liaison)

\* d: [hire, answers, rolls]
liaison_management(st, d) ==
    IF st.fn_liaison = "none" THEN _offer_liaison_hiring(st, d.hire)
    ELSE _liaison_suggestions(st, d)

\* the Q4 liaison fee in the main loop
pay_liaison_annual_cost(st) ==
    IF st.fn_liaison # "none"
    THEN IF st.budget >= liaison_cost(st.fn_liaison)
         THEN [st EXCEPT !.budget = @ - liaison_cost(st.fn_liaison)]
         ELSE [st EXCEPT !.fn_liaison = "none"]
    ELSE st

----------------------------------------------------------------------------
(* Workplace safety (workplace_safety.py) and the blackmail of corrupt     *)
(* officials (illegal_activities_enhanced.py)                              *)

\* the six SafetyIncident records; suspended_days is investigation_days when
\* operations_suspended is set, 0 otherwise
incidents ==
    << [immediate_costs |-> 150000, wsbc_fine |-> 500000,
        reputation_penalty |-> 400, suspended_days |-> 45],
       [immediate_costs |-> 200000, wsbc_fine |-> 750000,
        reputation_penalty |-> 500, suspended_days |-> 60],
       [immediate_costs |-> 300000, wsbc_fine |-> 400000,
        reputation_penalty |-> 300, suspended_days |-> 0],
       [immediate_costs |-> 75000, wsbc_fine |-> 150000,
        reputation_penalty |-> 200, suspended_days |-> 0],
       [immediate_costs |-> 500000, wsbc_fine |-> 800000,
        reputation_penalty |-> 600, suspended_days |-> 90],
       [immediate_costs |-> 125000, wsbc_fine |-> 250000,
        reputation_penalty |-> 250, suspended_days |-> 0] >>

\* fine_reduction, reputation_recovery and detection_risk in thousandths
response_options ==
    << [cost |-> 200000, fine_reduction |-> 300, reputation_recovery |-> 150,
        illegal |-> FALSE, detection_risk |-> 0],
       [cost |-> 75000, fine_reduction |-> 100, reputation_recovery |-> 50,
        illegal |-> FALSE, detection_risk |-> 0],
       [cost |-> 150000, fine_reduction |-> -200, reputation_recovery |-> -100,
        illegal |-> FALSE, detection_risk |-> 0],
       [cost |-> 100000, fine_reduction |-> 500, reputation_recovery |-> 0,
        illegal |-> TRUE, detection_risk |-> 600] >>

\* base_chance * risk_multiplier, in ten-thousandths
incident_chance(st) ==
    (800 * (10 + (IF st.operating_cost_per_m3 < 35 THEN 5 ELSE 0)
               + (IF st.reputation < 400 THEN 3 ELSE 0)
               + (IF st.safety_violations > 0 THEN 4 ELSE 0))) \div 10

\* state.safety_violations += n, the attribute set to 0 first if missing
add_safety_violation(st, n) ==
    [st EXCEPT !.safety_violations = Max(0, @) + n]

\* d: [confirm, r_detect]
_handle_worksafebc_bribery(st, incident, response, d) ==
    IF d.confirm = 1 THEN st
    ELSE IF st.budget < response.cost THEN st
    ELSE LET s1 == [st EXCEPT !.budget = @ - response.cost]
         IN IF d.r_detect < response.detection_risk
            THEN [s1 EXCEPT !.budget = @ - 1500000 - incident.wsbc_fine * 2,
                            !.reputation = Max(0, @ - 600)]
            ELSE [s1 EXCEPT !.budget = @ - Scale(incident.wsbc_fine,
                                    1000 - response.fine_reduction, 1000),
                            !.corrupt_officials =
                                Append(@, "worksafebc_inspector")]

\* d: [r_incident, incident, choice, confirm, r_detect]
workplace_safety_incidents(st, d) ==
    IF d.r_incident * 10 > incident_chance(st) THEN st
    ELSE
    LET incident == incidents[d.incident + 1]
        lost_revenue ==
            IF incident.suspended_days > 0
            THEN (st.revenue_per_m3 * st.annual_allowable_cut
                     * incident.suspended_days) \div 365
            ELSE 0
        s1 == [st EXCEPT !.budget = @ - incident.immediate_costs - lost_revenue,
                         !.reputation = Max(0, @ - incident.reputation_penalty)]
        chosen_response == response_options[d.choice + 1]
        final_fine == Scale(incident.wsbc_fine,
                            1000 - chosen_response.fine_reduction, 1000)
        paid == [s1 EXCEPT
                   !.budget = @ - chosen_response.cost - final_fine,
                   !.reputation =
                       IF chosen_response.reputation_recovery > 0
                       THEN Min(1000, @ + chosen_response.reputation_recovery)
                       ELSE IF chosen_response.reputation_recovery < 0
                       THEN Max(0, @ + chosen_response.reputation_recovery)
                       ELSE @]
        s2 == IF s1.budget >= chosen_response.cost
              THEN IF d.choice = 0
                   THEN [paid EXCEPT !.safety_violations = Max(0, Max(0, @) - 1)]
                   ELSE IF d.choice = 2 THEN add_safety_violation(paid, 1)
                   ELSE paid
              ELSE [s1 EXCEPT !.budget = @ - incident.wsbc_fine]
    IN IF chosen_response.illegal
       THEN _handle_worksafebc_bribery(s1, incident, chosen_response, d)
       ELSE add_safety_violation(s2, 1)

RECURSIVE RemoveFirst(_, _)
\* list.remove(x)
RemoveFirst(q, x) ==
    IF q = <<>> THEN <<>>
    ELSE IF Head(q) = x THEN Tail(q)
    ELSE <<Head(q)>> \o RemoveFirst(Tail(q), x)

\* d: [r_blackmail, source, amount, choice, penalty, r_expose]; source is a
\* position in corrupt_officials
ongoing_criminal_consequences(st, d) ==
    IF Len(st.corrupt_officials) > 0 /\ d.r_blackmail < 300 THEN
        LET blackmail_source == st.corrupt_officials[d.source]
        IN IF d.choice = 0 THEN
               IF st.budget >= d.amount
               THEN [st EXCEPT !.budget = @ - d.amount]
               ELSE [st EXCEPT !.reputation = Max(0, @ - 300),
                               !.budget = @ - d.penalty]
           ELSE IF d.r_expose < 600
           THEN [st EXCEPT !.reputation = Max(0, @ - 400),
                           !.budget = @ - d.penalty,
                           !.corrupt_officials =
                               RemoveFirst(@, blackmail_source)]
           ELSE st
    ELSE st

\* d: [r_consequence, consequence, cost]
ongoing_safety_consequences(st, d) ==
    LET reputation == <<-50, -100, -150, 50>>
    IN IF st.safety_violations = -1 THEN st
       ELSE IF st.safety_violations > 0 /\ d.r_consequence < 150
       THEN [st EXCEPT !.budget = @ - d.cost,
                       !.reputation =
                           Max(0, Min(1000, @ + reputation[d.consequence + 1]))]
       ELSE st

----------------------------------------------------------------------------
(* Anger events (first_nations_anger.py) and the detection of illegal      *)
(* activities (illegal_activities_enhanced.py)                             *)

\* the first two of the general events of anger_events, which are offered
\* in every state
anger_events ==
    << [ relationship_penalty |-> 300, reputation_penalty |-> 200,
         response_options |->
           << [cost |-> 25000, relationship_recovery |-> 200,
               reputation_recovery |-> 100, success_chance |-> 800],
              [cost |-> 15000, relationship_recovery |-> 100,
               reputation_recovery |-> 150, success_chance |-> 600],
              [cost |-> 0, relationship_recovery |-> -100,
               reputation_recovery |-> -100, success_chance |-> 1000] >> ],
       [ relationship_penalty |-> 400, reputation_penalty |-> 300,
         response_options |->
           << [cost |-> 50000, relationship_recovery |-> 300,
               reputation_recovery |-> 200, success_chance |-> 900],
              [cost |-> 75000, relationship_recovery |-> 100,
               reputation_recovery |-> 100, success_chance |-> 500],
              [cost |-> 5000, relationship_recovery |-> -200,
               reputation_recovery |-> -200, success_chance |-> 1000] >> ] >>

\* value + delta kept within 0.0 .. 1.0 the way the handler clamps it: min
\* for a gain, max for a loss
recovered(value, delta) ==
    IF delta > 0 THEN Min(1000, value + delta)
    ELSE IF delta < 0 THEN Max(0, value + delta)
    ELSE value

\* d: [r_event, angry, event, choice, r_success]; angry is a position in
\* first_nations
random_first_nations_anger_events(st, d) ==
    IF d.r_event > 300 THEN st
    ELSE IF st.first_nations = <<>> THEN st
    ELSE
    LET chosen_event == anger_events[d.event + 1]
        chosen_response == chosen_event.response_options[d.choice + 1]
        s1 == [st EXCEPT
                 !.first_nations[d.angry].relationship_level =
                     Max(0, @ - chosen_event.relationship_penalty),
                 !.reputation = Max(0, @ - chosen_event.reputation_penalty)]
        s2 == IF chosen_response.cost > 0
              THEN [s1 EXCEPT !.budget = @ - chosen_response.cost]
              ELSE s1
        exceptional == chosen_response.cost > 50000
                          /\ chosen_response.success_chance > 800
        succeeded ==
            [s2 EXCEPT
               !.first_nations =
                   [i \in 1..Len(@) |->
                      IF i = d.angry
                      THEN [@[i] EXCEPT !.relationship_level =
                              recovered(@, chosen_response.relationship_recovery)]
                      ELSE IF exceptional
                      THEN [@[i] EXCEPT !.relationship_level =
                              Min(1000, @ + 50)]
                      ELSE @[i]],
               !.reputation =
                   recovered(@, chosen_response.reputation_recovery)]
        failed ==
            [s2 EXCEPT
               !.first_nations[d.angry].relationship_level = Max(0, @ - 100),
               !.reputation =
                   IF chosen_response.cost > 30000
                   THEN Max(0, Max(0, @ - 100) - 50)
                   ELSE Max(0, @ - 100)]
    IN IF chosen_response.cost > 0 /\ s1.budget < chosen_response.cost
       THEN [s1 EXCEPT
               !.first_nations[d.angry].relationship_level = Max(0, @ - 200),
               !.reputation = Max(0, @ - 150)]
       ELSE IF d.r_success < chosen_response.success_chance
       THEN succeeded
       ELSE failed

\* three of simple_operations: the buffer zone violation, the underreported
\* volumes and the asbestos disposal
simple_operations ==
    << [cost_savings |-> 180000, detection_risk |-> 400,
        reputation_penalty |-> 200, fine_amount |-> 450000],
       [cost_savings |-> 320000, detection_risk |-> 200,
        reputation_penalty |-> 100, fine_amount |-> 800000],
       [cost_savings |-> 75000, detection_risk |-> 200,
        reputation_penalty |-> 200, fine_amount |-> 225000] >>

\* d: [bribe_choice, r_bribe]
_handle_simple_detection(st, act, d) ==
    LET s1 == [st EXCEPT !.budget = @ - act.fine_amount,
                         !.reputation = Max(0, @ - act.reputation_penalty)]
        bribe_amount == Scale(act.fine_amount, 3, 10)
        refund == Scale(act.fine_amount, 7, 10)
    IN IF act.fine_amount < 600000 /\ s1.budget > 50000
          /\ d.bribe_choice = 0 /\ s1.budget >= bribe_amount
       THEN IF d.r_bribe < 400
            THEN [s1 EXCEPT !.budget = @ - bribe_amount + refund]
            ELSE [s1 EXCEPT !.budget = @ - bribe_amount - act.fine_amount,
                            !.reputation = Max(0, @ - 200)]
       ELSE s1

\* The CRA Deception Network, the first of complex_operations
complex_operation ==
    [ base_risk |-> 200,
      stages |-> << [profit |-> 350000, risk_increase |-> 100, cost |-> 15000],
                    [profit |-> 850000, risk_increase |-> 150, cost |-> 50000],
                    [profit |-> 2400000, risk_increase |-> 250, cost |-> 100000],
                    [profit |-> 4900000, risk_increase |-> 400, cost |-> 200000] >> ]

RECURSIVE SumFirst(_, _, _)
\* sum of field f of the first n records of q
SumFirst(q, f, n) == IF n = 0 THEN 0 ELSE q[n][f] + SumFirst(q, f, n - 1)

\* what _execute_multi_stage_operation hands to _handle_criminal_detection
\* when stage k (counted from 1) is detected: the profit of the earlier
\* stages and current_risk
detection(operation, k) ==
    [ accumulated_profit |-> SumFirst(operation.stages, "profit", k - 1),
      risk_level |-> operation.base_risk
                        + SumFirst(operation.stages, "risk_increase", k) ]

\* d: [r_legal]
_execute_legal_response(st, option, base_fine, d) ==
    LET s1 == IF st.budget >= option.cost
              THEN [st EXCEPT !.budget = @ - option.cost]
              ELSE st
        final_fine == IF d.r_legal < option.success_chance
                      THEN Scale(base_fine, option.fine_multiplier, 1000)
                      ELSE base_fine
    IN [s1 EXCEPT !.budget = @ - final_fine,
                  !.reputation = Max(0, @ - option.reputation_penalty),
                  !.criminal_convictions = @ + 1]

\* d: [confirm, r_bribery, r_legal]
_execute_bribery_layer(st, option, base_fine, risk_level, d) ==
    IF d.confirm = 1
    THEN _execute_legal_response(st,
             [cost |-> 500000, fine_multiplier |-> 600,
              reputation_penalty |-> Scale(risk_level, 8, 10),
              success_chance |-> 700], base_fine, d)
    ELSE IF st.budget < option.cost
    THEN _execute_legal_response(st,
             [cost |-> 0, fine_multiplier |-> 1000,
              reputation_penalty |-> risk_level,
              success_chance |-> 1000], base_fine, d)
    ELSE
    LET s1 == [st EXCEPT !.budget = @ - option.cost]
        \* f"layer_{bribery_layer}_officials"
        layer_officials ==
            << "layer_1_officials", "layer_2_officials",
               "layer_3_officials", "layer_4_officials" >>
        penalty_multiplier == 2 + option.bribery_layer
        detected ==
            [s1 EXCEPT
               !.budget = @ - base_fine * penalty_multiplier,
               !.reputation = Max(0, @ - Scale(risk_level, 15, 10))]
    IN IF d.r_bribery < option.success_chance
       THEN [s1 EXCEPT
               !.budget = @ - Scale(base_fine, option.fine_multiplier, 1000),
               !.reputation = Max(0, @ - option.reputation_penalty),
               !.corrupt_officials = Append(@, layer_officials[option.bribery_layer])]
       ELSE IF option.bribery_layer >= 3
       THEN [detected EXCEPT !.budget = Max(0, @ - 1000000)]
       ELSE detected

escape_options(st, risk_level) ==
    LET Escape(cost, multiplier, penalty, chance, layer) ==
            [ cost |-> cost, fine_multiplier |-> multiplier,
              reputation_penalty |-> penalty, success_chance |-> chance,
              illegal |-> layer > 0, bribery_layer |-> layer ]
    IN
    << Escape(0, 1000, risk_level, 1000, 0),
       Escape(500000, 600, Scale(risk_level, 8, 10), 700, 0),
       Escape(300000, 300, Scale(risk_level, 5, 10), 600, 1) >>
    \o (IF st.budget > 1000000
        THEN << Escape(800000, 200, Scale(risk_level, 3, 10), 700, 2) >>
        ELSE <<>>)
    \o (IF st.budget > 2500000
        THEN << Escape(1500000, 100, Scale(risk_level, 2, 10), 800, 3) >>
        ELSE <<>>)
    \o (IF st.budget > 5000000
        THEN << Escape(3000000, 50, Scale(risk_level, 1, 10), 900, 4) >>
        ELSE <<>>)

base_fine_of(caught) ==
    Scale(caught.accumulated_profit, 2000 + caught.risk_level, 1000)

\* caught: what detection() hands over; d: [choice, confirm, r_bribery,
\* r_legal]
_handle_criminal_detection(st, caught, d) ==
    LET base_fine == base_fine_of(caught)
        chosen_option == escape_options(st, caught.risk_level)[d.choice + 1]
    IN IF chosen_option.illegal
       THEN _execute_bribery_layer(st, chosen_option, base_fine,
                                   caught.risk_level, d)
       ELSE _execute_legal_response(st, chosen_option, base_fine, d)

----------------------------------------------------------------------------
(* Management decisions (forestry_game_modular.py)                         *)

\* base_cost of the seven management activities, by menu index
base_cost == <<0, 0, 0, 0, 30000, 0, 0>>

\* int(base_cost * (1.0 + i * 0.5)) for the i-th selected activity (from 0)
activity_cost(idx, i) == Scale(base_cost[idx + 1], 10 + 5 * i, 10)

\* the selected activities with their escalated costs, or nothing when the
\* selection is blank, holds a token that is not a number (invalid), names
\* no activity of the menu or costs more than the budget; selection holds
\* int(x) - 1 for the numbers typed
selected_activities(st, selection, invalid) ==
    LET indices == SelectSeq(selection,
                             LAMBDA i : 0 <= i /\ i < Len(base_cost))
        priced == [i \in 1..Len(indices) |->
                      [idx |-> indices[i],
                       cost |-> activity_cost(indices[i], i - 1)]]
        total_cost == SumSeq([i \in 1..Len(priced) |-> priced[i].cost])
    IN IF selection = <<>> THEN <<>>
       ELSE IF invalid THEN <<>>
       ELSE IF total_cost > st.budget THEN <<>>
       ELSE priced

\* one pass of the execution loop: pay, then run the action of the activity.
\* Activities 2 (CEO), 5 (criminal enterprises) and 6 (safety audit) are
\* outside the explored selections.
run_activity(st, act, d) ==
    LET s1 == IF act.cost > 0 THEN [st EXCEPT !.budget = @ - act.cost] ELSE st
    IN IF act.idx = 0 THEN selective_permit_submission(s1, d)
       ELSE IF act.idx = 1 THEN liaison_management(s1, d)
       ELSE IF act.idx = 3 THEN certification_opportunities(s1, d.choice)
       ELSE _forest_health_action(s1)

----------------------------------------------------------------------------
(* Inputs of the explored runs.  Every run draws its inputs from the menu  *)
(* of its focus: the answers typed by the player and the results of the    *)
(* random draws.  Narrow is the menu in which the player takes one fixed   *)
(* answer and no random event occurs; each focus widens a part of it.      *)

\* the text "x x ... x" typed n times at a selection prompt
RepeatSeq(x, n) == [i \in 1..n |-> x]

\* total_quarters of play_game
FullGame == 60

Narrow ==
    [ quarters |-> MaxQuarters,
      regions |-> {2}, plans |-> {1}, heritage |-> {1},
      policy |-> {900},
      approaches |-> {1}, legal |-> {75000}, court |-> {0}, meet |-> {0},
      notice |-> {999}, treaty |-> {0}, accept |-> {0},
      volumes |-> {0}, picks |-> {"max"}, sizes |-> "all",
      plan_blocks |-> MaxPlanBlocks, priorities |-> {3},
      og_rolls |-> {999},
      selections |-> { <<>> },
      strategies |-> {0}, customs |-> { <<1>> }, invalid |-> {FALSE},
      confirms |-> {0}, noise |-> {-30},
      decide |-> {0},
      disasters |-> {900}, losses |-> {200, 100, 50, 250},
      sanitation |-> {0}, weather |-> {900},
      prices |-> {0},
      hires |-> {3}, answers |-> {0}, success |-> {0},
      cert_choices |-> {0, 1, 2, 3},
      drop |-> {0}, audit |-> {1}, appeal |-> {999},
      incident_rolls |-> {999}, incident_kinds |-> {0}, responses |-> {1},
      bribe_confirms |-> {0}, detect |-> {999},
      blackmail |-> {999}, demands |-> {100000}, pays |-> {0},
      penalties |-> {500000}, exposure_penalties |-> {1000000},
      expose |-> {0},
      consequence_rolls |-> {999}, consequences |-> {0},
      consequence_costs |-> {100000},
      continues |-> {0} ]

\* In the budget focus the player spends the budget down by typing the
\* forest-health activity several times in one selection, then takes paid
\* actions with what is left.
Menu ==
    [ calendar |->
        [Narrow EXCEPT !.quarters = LongQuarters, !.regions = {0, 1, 2},
                       !.continues = {0, 1, 2}, !.prices = {-150, 0, 150}],
      consultation |->
        [Narrow EXCEPT !.regions = {0, 1, 2}, !.plans = {0, 1},
                       !.heritage = {0, 1}, !.approaches = {0, 1, 2, 3},
                       !.legal = LegalCosts, !.court = Rolls, !.meet = Rolls,
                       !.notice = Rolls, !.treaty = {0, 1, 2},
                       !.accept = Rolls],
      policy |->
        [Narrow EXCEPT !.regions = {0, 1, 2}, !.policy = PolicyRolls,
                       !.og_rolls = Rolls],
      permits |->
        [Narrow EXCEPT !.quarters = ShortQuarters, !.regions = {0},
                       !.volumes = {0, 2},
                       !.priorities = {1, 3},
                       !.og_rolls = Rolls,
                       !.selections = { <<>>, <<0>>, <<7, 0, -1>> },
                       !.strategies = {0, 1, 2, 3, 4},
                       !.customs = { <<2, 1>>, <<1, 1>>, <<0, 7>> },
                       !.invalid = {FALSE, TRUE}, !.confirms = {0, 1},
                       !.decide = DecisionRolls],
      harvest |->
        [Narrow EXCEPT !.approaches = {0, 3}, !.court = Rolls,
                       !.selections = { <<>>, <<0>>, <<3>> },
                       !.cert_choices = {0, 2},
                       !.decide = DecisionRolls, !.disasters = {50, 900}],
      disasters |->
        [Narrow EXCEPT !.quarters = ShortQuarters,
                       !.selections = { <<0>> },
                       !.disasters = {50, 100, 140, 160, 900},
                       !.losses = UNION { LossPercents[k] : k \in DOMAIN LossPercents },
                       !.sanitation = {0, 1, 2}, !.weather = {50, 200, 900}],
      stewardship |->
        [Narrow EXCEPT !.regions = {0, 1}, !.approaches = {0, 1},
                       !.selections = { <<>>, <<1>>, <<3>>, <<4>>, <<4, 4>>,
                                        <<1, 3>> },
                       !.quarters = ShortQuarters,
                       !.hires = {0, 1, 2, 3}, !.answers = {0, 1, 2, 3},
                       !.success = Rolls],
      budget |->
        [Narrow EXCEPT !.regions = {0}, !.plans = {0, 1},
                       !.approaches = {1, 2, 3},
                       !.selections = { <<>>, RepeatSeq(4, 16), RepeatSeq(4, 3),
                                        <<4>>, <<4, 4, 4, 0>>, <<1>>,
                                        <<1>> \o RepeatSeq(4, 15) },
                       !.hires = {2} ],
      certification |->
        [Narrow EXCEPT !.quarters = ShortQuarters, !.regions = {0},
                       !.selections = { <<>>, <<3, 3>> },
                       !.cert_choices = {0, 1, 2},
                       !.drop = {0, 1}, !.audit = {0, 1, 2},
                       !.appeal = Rolls ],
      challenge |->
        [Narrow EXCEPT !.regions = {1}, !.approaches = {3}, !.court = Rolls,
                       !.selections = { <<0>> }, !.disasters = {50}],
      downturn |->
        [Narrow EXCEPT !.selections = { <<0>> }, !.disasters = {50},
                       !.losses = {600}, !.weather = {50, 900},
                       !.prices = {-150}],
      deadline |->
        [Narrow EXCEPT !.priorities = {1}, !.og_rolls = {0},
                       !.selections = { <<>>, <<0>> },
                       !.noise = {60}],
      full |->
        [Narrow EXCEPT !.quarters = FullGame, !.continues = {0, 1, 2}],
      safety |->
        [Narrow EXCEPT !.quarters = ShortQuarters,
                       !.incident_rolls = {0, 999},
                       !.incident_kinds = {0, 3},
                       !.responses = {0, 1, 2, 3},
                       !.bribe_confirms = {0, 1}, !.detect = Rolls,
                       !.blackmail = Rolls, !.pays = {0, 1},
                       !.expose = Rolls,
                       !.consequence_rolls = Rolls] ]

\* the draws of a planning pass explored on its own: every volume option,
\* the smallest category at each pass and both ends of its size range
PlanMenu ==
    [Narrow EXCEPT !.regions = {0, 1, 2}, !.volumes = {0, 1, 2},
                   !.picks = {"min", "max"}, !.sizes = "least",
                   !.plan_blocks = 20, !.priorities = {1, 3}]

\* the menu of the current run
M == IF focus = "planning" THEN PlanMenu ELSE Menu[focus]

\* answers and draws of one counterparty during a consultation
DefaultDraw ==
    [ legal_cost |-> 75000, r_court |-> 0, r_meet |-> 0, r_legal |-> 999,
      treaty_choice |-> 0, r_accept |-> 0 ]

NationDraws(st, i, choice, m) ==
    LET fn == st.first_nations[i]
        court == { [DefaultDraw EXCEPT !.legal_cost = c, !.r_court = r] :
                     c \in m.legal, r \in m.court }
    IN IF ~needs_consultation(fn, st.year) THEN {DefaultDraw}
       ELSE IF choice = 0 THEN
           IF fn.treaty_area
              /\ st.cumulative_disturbance > st.disturbance_cap * 50
           THEN { [x EXCEPT !.treaty_choice = t, !.r_accept = a] :
                    x \in court, t \in m.treaty, a \in m.accept }
           ELSE {DefaultDraw}
       ELSE IF choice = 1 THEN
           { [DefaultDraw EXCEPT !.r_meet = r] : r \in m.meet }
       ELSE IF choice = 2 THEN
           IF fn.treaty_area
           THEN { [x EXCEPT !.r_legal = r] : x \in court, r \in m.notice }
           ELSE {DefaultDraw}
       ELSE IF fn.treaty_area THEN court ELSE {DefaultDraw}

ConsultationDraws(st, choice, m) ==
    { D \in [1..Len(st.first_nations) -> UNION { NationDraws(st, i, choice, m) :
                                               i \in 1..Len(st.first_nations) }] :
        \A i \in 1..Len(st.first_nations) : D[i] \in NationDraws(st, i, choice, m) }

PermitDraws(st, m) ==
    UNION { { [strategy |-> s, tokens |-> t, invalid |-> v, confirm |-> c,
               noise |-> n] :
                v \in (IF s = 3 THEN m.invalid ELSE {FALSE}),
                c \in m.confirms,
                n \in [1..Len(blocks_to_process(st, s, t)) -> m.noise] } :
            <<s, t>> \in { x \in m.strategies \X m.customs :
                             x[1] = 3 \/ x[2] = CHOOSE y \in m.customs : TRUE } }

LiaisonDraws(st, m) ==
    IF st.fn_liaison = "none"
    THEN { [hire |-> h, answers |-> <<>>, rolls |-> <<>>] : h \in m.hires }
    ELSE LET n == Len(_generate_suggestions(st, st.fn_liaison))
         IN { [hire |-> 3, answers |-> a, rolls |-> r] :
                a \in [1..n -> m.answers], r \in [1..n -> m.success] }

ActivityDraws(st, act, m) ==
    IF act.idx = 0 THEN PermitDraws(st, m)
    ELSE IF act.idx = 1 THEN LiaisonDraws(st, m)
    ELSE IF act.idx = 3
    THEN { [choice |-> c] : c \in m.cert_choices \cap 0..Len(available_certs(st)) }
    ELSE { [choice |-> 0] }

HarvestDraws(st, m) ==
    LET approved == approved_positions(st)
    IN IF approved = {}
       THEN { [disaster_chance |-> 900, hit |-> <<>>, sanitation_choice |-> 0,
               weather_event |-> 900] }
       ELSE UNION { { [disaster_chance |-> c, hit |-> h, sanitation_choice |-> s,
                       weather_event |-> w] :
                        h \in DisasterHits(approved, disaster_kind(c), m.losses),
                        s \in (IF disaster_kind(c) = "none" THEN {0}
                               ELSE m.sanitation),
                        w \in m.weather } :
                    c \in m.disasters }

MaintainDraws(st, m) ==
    LET act == Range(active_positions(st))
    IN { [drop_choice |-> c, audit |-> A] :
           c \in (IF act = {} THEN {0} ELSE m.drop \cup {Cardinality(act)}),
           A \in [act -> { [choice |-> a, r_appeal |-> r] :
                             a \in m.audit, r \in m.appeal }] }

\* QuietIncident: no incident this quarter
IncidentDraws(st, m) ==
    LET QuietIncident ==
            [ r_incident |-> 999, incident |-> 0, choice |-> 1,
              confirm |-> 0, r_detect |-> 999 ]
    IN
    UNION { IF r * 10 > incident_chance(st) THEN {QuietIncident}
            ELSE UNION { IF response_options[c + 1].illegal
                         THEN { [QuietIncident EXCEPT
                                   !.r_incident = r, !.incident = k,
                                   !.choice = c, !.confirm = y,
                                   !.r_detect = x] :
                                  k \in m.incident_kinds,
                                  y \in m.bribe_confirms, x \in m.detect }
                         ELSE { [QuietIncident EXCEPT
                                   !.r_incident = r, !.incident = k,
                                   !.choice = c] : k \in m.incident_kinds }
                         : c \in m.responses }
            : r \in m.incident_rolls }

\* QuietBlackmail: no demand this quarter
BlackmailDraws(st, m) ==
    LET QuietBlackmail ==
            [ r_blackmail |-> 999, source |-> 1, amount |-> 100000,
              choice |-> 0, penalty |-> 500000, r_expose |-> 999 ]
    IN
    IF st.corrupt_officials = <<>> THEN {QuietBlackmail}
    ELSE UNION { IF r >= 300 THEN {QuietBlackmail}
                 ELSE UNION {
                        { [ r_blackmail |-> r, source |-> i, amount |-> a,
                            choice |-> c, penalty |-> p, r_expose |-> x ] :
                            i \in 1..Len(st.corrupt_officials),
                            a \in m.demands,
                            p \in IF c = 0 THEN m.penalties
                                   ELSE m.exposure_penalties,
                            x \in m.expose }
                        : c \in m.pays }
                 : r \in m.blackmail }

\* QuietConsequence: no consequence this quarter
ConsequenceDraws(st, m) ==
    LET QuietConsequence ==
            [ r_consequence |-> 999, consequence |-> 0, cost |-> 0 ]
    IN
    IF st.safety_violations <= 0 THEN {QuietConsequence}
    ELSE UNION { IF r >= 150 THEN {QuietConsequence}
                 ELSE { [ r_consequence |-> r, consequence |-> k,
                          cost |-> c ] :
                          k \in m.consequences, c \in m.consequence_costs }
                 : r \in m.consequence_rolls }

----------------------------------------------------------------------------
(* The main loop (play_game / ForestryGame.play)                           *)

\* the first handler of a quarter
Season(quarter) ==
    IF quarter = 1 THEN "policy"
    ELSE IF quarter \in {2, 3} THEN "permits"
    ELSE "certs"

Did(op) == [op |-> op]

Init ==
    /\ focus \in DOMAIN Menu
    /\ state = GameState
    /\ pc = "choose_region"
    /\ quarter_count = 0
    /\ total_quarters = Menu[focus].quarters
    /\ todo = <<>>
    /\ verdict = ""
    /\ last = Did("init")
    /\ submitted_in = << >>

ChooseRegion ==
    /\ pc = "choose_region"
    /\ \E idx \in M.regions : state' = choose_region(state, idx)
    /\ pc' = "initial_setup"
    /\ last' = Did("choose_region")
    /\ UNCHANGED <<quarter_count, total_quarters, todo, verdict, focus, submitted_in>>

\* initial_setup, then the first test of the loop condition
InitialSetup ==
    /\ pc = "initial_setup"
    /\ \E p \in M.plans, h \in M.heritage : state' = initial_setup(state, p, h)
    /\ IF quarter_count < total_quarters
       THEN quarter_count' = quarter_count + 1 /\ pc' = Season(state.quarter)
       ELSE quarter_count' = quarter_count /\ pc' = "done"
    /\ last' = Did("initial_setup")
    /\ UNCHANGED <<total_quarters, todo, verdict, focus, submitted_in>>

PolicyEvents ==
    /\ pc = "policy"
    /\ \E event_chance \in M.policy :
          state' = random_policy_events(state, event_chance)
    /\ pc' = "consult"
    /\ last' = Did("random_policy_events")
    /\ UNCHANGED <<quarter_count, total_quarters, todo, verdict, focus, submitted_in>>

\* an exception raised below the consultation is not caught by the loop
Consultation ==
    /\ pc = "consult"
    /\ \E choice \in M.approaches :
         \E D \in ConsultationDraws(state, choice, M) :
            /\ state' = ongoing_first_nations_consultation(state, choice, D)
            /\ last' = [op |-> "consultation", choice |-> choice,
                        asked |-> nations_needing_consultation(state) # {},
                        D |-> D, before |-> state]
    /\ pc' = IF state'.raised THEN "crashed" ELSE "plan"
    /\ UNCHANGED <<quarter_count, total_quarters, todo, verdict, focus, submitted_in>>

PlanHarvest ==
    /\ pc = "plan"
    /\ \E idx \in M.volumes :
         \E new_blocks \in PlanOutcomes(state, planned_volumes(state)[idx + 1],
                                        0, M) :
            state' = plan_harvest_schedule(state, idx, new_blocks)
    /\ pc' = "incident"
    /\ last' = Did("plan_harvest_schedule")
    /\ UNCHANGED <<quarter_count, total_quarters, todo, verdict, focus, submitted_in>>

ProcessPermits ==
    /\ pc = "permits"
    /\ \E R \in [due_blocks(state) -> M.decide] :
          /\ state' = process_permits(state, R)
          /\ last' = [op |-> "process_permits", decided |-> due_blocks(state),
                      R |-> R, before |-> state]
    /\ pc' = "harvest"
    /\ UNCHANGED <<quarter_count, total_quarters, todo, verdict, focus, submitted_in>>

ConductHarvest ==
    /\ pc = "harvest"
    /\ \E d \in HarvestDraws(state, M) :
          /\ state' = conduct_harvest_operations(state, d)
          /\ last' = [op |-> "conduct_harvest_operations",
                      harvested |-> Cardinality(approved_positions(state)),
                      d |-> d, before |-> state]
    /\ pc' = "incident"
    /\ UNCHANGED <<quarter_count, total_quarters, todo, verdict, focus, submitted_in>>

MaintainCertifications ==
    /\ pc = "certs"
    /\ \E d \in MaintainDraws(state, M) :
          /\ state' = maintain_certifications(state, d)
          /\ last' = [op |-> "maintain_certifications", d |-> d,
                      before |-> state]
    /\ pc' = "market"
    /\ UNCHANGED <<quarter_count, total_quarters, todo, verdict, focus, submitted_in>>

MarketFluctuations ==
    /\ pc = "market"
    /\ \E price_change \in M.prices :
          state' = market_fluctuations(state, price_change)
    /\ pc' = "fees"
    /\ last' = Did("market_fluctuations")
    /\ UNCHANGED <<quarter_count, total_quarters, todo, verdict, focus, submitted_in>>

\* the Q4 annual costs; without a CEO pay_ceo_annual_costs does nothing
AnnualCosts ==
    /\ pc = "fees"
    /\ state' = pay_liaison_annual_cost(state)
    /\ pc' = "incident"
    /\ last' = Did("annual_costs")
    /\ UNCHANGED <<quarter_count, total_quarters, todo, verdict, focus, submitted_in>>

\* workplace_safety_incidents
SafetyIncidents ==
    /\ pc = "incident"
    /\ \E d \in IncidentDraws(state, M) :
          /\ state' = workplace_safety_incidents(state, d)
          /\ last' = [op |-> "workplace_safety_incidents", d |-> d,
                      before |-> state]
    /\ pc' = "blackmail"
    /\ UNCHANGED <<quarter_count, total_quarters, todo, verdict, focus, submitted_in>>

\* ongoing_criminal_consequences; fresh: the safety step of this quarter
\* has just created a corrupt official
CriminalConsequences ==
    /\ pc = "blackmail"
    /\ \E d \in BlackmailDraws(state, M) :
          /\ state' = ongoing_criminal_consequences(state, d)
          /\ last' = [op |-> "ongoing_criminal_consequences", d |-> d,
                      before |-> state,
                      demanded |-> Len(state.corrupt_officials) > 0
                                      /\ d.r_blackmail < 300,
                      fresh |-> /\ last.op = "workplace_safety_incidents"
                                /\ Len(state.corrupt_officials)
                                      > Len(last.before.corrupt_officials)]
    /\ pc' = "aftermath"
    /\ UNCHANGED <<quarter_count, total_quarters, todo, verdict, focus, submitted_in>>

\* ongoing_safety_consequences
SafetyConsequences ==
    /\ pc = "aftermath"
    /\ \E d \in ConsequenceDraws(state, M) :
          /\ state' = ongoing_safety_consequences(state, d)
          /\ last' = [op |-> "ongoing_safety_consequences", d |-> d,
                      before |-> state]
    /\ pc' = "manage"
    /\ UNCHANGED <<quarter_count, total_quarters, todo, verdict, focus, submitted_in>>

\* annual_management_decisions up to the execution loop.  The explored
\* runs have no CEO and draw no anger event before it.
ManagementDecisions ==
    /\ pc = "manage"
    /\ \E selection \in M.selections :
       \E invalid \in (IF selection = <<>> THEN {FALSE} ELSE M.invalid) :
          /\ todo' = selected_activities(state, selection, invalid)
          /\ last' = [op |-> "annual_management_decisions",
                      selection |-> selection, invalid |-> invalid]
    /\ pc' = IF todo' = <<>> THEN "summary" ELSE "activity"
    /\ UNCHANGED <<state, quarter_count, total_quarters, verdict, focus, submitted_in>>

\* one pass of the execution loop of annual_management_decisions
ExecuteActivity ==
    /\ pc = "activity"
    /\ \E d \in ActivityDraws(state, Head(todo), M) :
          /\ state' = run_activity(state, Head(todo), d)
          /\ last' = [op |-> "activity", idx |-> Head(todo).idx, d |-> d,
                      before |-> state]
    /\ todo' = Tail(todo)
    /\ pc' = IF Tail(todo) = <<>> THEN "summary" ELSE "activity"
    /\ LET now == IF last'.idx = 0 THEN submitted_now(state, last'.d) ELSE {}
           present == { state'.harvest_blocks[k].id :
                          k \in 1..Len(state'.harvest_blocks) }
           kept == (DOMAIN submitted_in \cap present) \ now
       IN submitted_in' = [id \in kept \cup now |->
                             IF id \in now THEN quarter_count
                             ELSE submitted_in[id]]
    /\ UNCHANGED <<quarter_count, total_quarters, verdict, focus>>

\* the quarter end of a driver that never breaks out of the loop
QuarterEnd_plays_on ==
    /\ pc = "summary"
    /\ state' = quarter_end_summary(state)
    /\ verdict' = verdict
    /\ pc' = IF state.quarter = 4 /\ quarter_count < total_quarters - 4
             THEN "continue" ELSE "advance"
    /\ last' = Did("quarter_end_summary")
    /\ UNCHANGED <<quarter_count, total_quarters, todo, focus, submitted_in>>

\* quarter_end_summary, then check_win_conditions and the break
QuarterEnd ==
    /\ pc = "summary"
    /\ state' = quarter_end_summary(state)
    /\ LET result == check_win_conditions(state')
       IN IF result[1]
          THEN verdict' = result[2] /\ pc' = "over"
          ELSE /\ verdict' = verdict
               /\ pc' = IF state.quarter = 4 /\ quarter_count < total_quarters - 4
                        THEN "continue" ELSE "advance"
    /\ last' = Did("quarter_end_summary")
    /\ UNCHANGED <<quarter_count, total_quarters, todo, focus, submitted_in>>

\* a prompt at which "play 1 more quarter only" adds a quarter to the run
ContinuePrompt_extends ==
    /\ pc = "continue"
    /\ \E choice \in M.continues :
          /\ pc' = IF choice = 1 THEN "done" ELSE "advance"
          /\ total_quarters' = IF choice = 2 THEN total_quarters + 1
                               ELSE total_quarters
          /\ last' = [op |-> "continue", choice |-> choice]
    /\ UNCHANGED <<state, quarter_count, todo, verdict, focus, submitted_in>>

ContinuePrompt ==
    /\ pc = "continue"
    /\ \E choice \in M.continues :
          /\ pc' = IF choice = 1 THEN "done" ELSE "advance"
          /\ total_quarters' = IF choice = 2 THEN quarter_count + 1
                               ELSE total_quarters
          /\ last' = [op |-> "continue", choice |-> choice]
    /\ UNCHANGED <<state, quarter_count, todo, verdict, focus, submitted_in>>

\* advance_quarter, then the next test of the loop condition
AdvanceQuarter ==
    /\ pc = "advance"
    /\ state' = advance_quarter(state)
    /\ IF quarter_count < total_quarters
       THEN quarter_count' = quarter_count + 1 /\ pc' = Season(state'.quarter)
       ELSE quarter_count' = quarter_count /\ pc' = "done"
    /\ last' = Did("advance_quarter")
    /\ UNCHANGED <<total_quarters, todo, verdict, focus, submitted_in>>

Next ==
    \/ ChooseRegion
    \/ InitialSetup
    \/ PolicyEvents
    \/ Consultation
    \/ PlanHarvest
    \/ ProcessPermits
    \/ ConductHarvest
    \/ MaintainCertifications
    \/ MarketFluctuations
    \/ AnnualCosts
    \/ SafetyIncidents
    \/ CriminalConsequences
    \/ SafetyConsequences
    \/ ManagementDecisions
    \/ ExecuteActivity
    \/ QuarterEnd
    \/ ContinuePrompt
    \/ AdvanceQuarter

Spec == Init /\ [][Next]_vars

----------------------------------------------------------------------------
(* The win/loss evaluator on its own: check_win_conditions applied to      *)
(* world states drawn from a bounded set.  The inputs are states of the    *)
(* SBS region in which a quarter has just ended; each field takes a value  *)
(* on either side of the thresholds the evaluator reads.  The disturbance  *)
(* stays below every threshold, as it does in a game of fifteen years.     *)

WinInputs ==
    { [choose_region(GameState, 0) EXCEPT
          !.budget = b, !.reputation = r, !.biodiversity_score = bio,
          !.consecutive_profitable_years = y[1], !.jobs_created = y[2],
          !.years_operated = n, !.year = 2025 + n, !.quarter = 4,
          !.total_revenue = y[3],
          !.certifications = IF c THEN
              << Certification("PEFC", 2025, 18000, 150, 100),
                 Certification("SFI", 2025, 15000, 120, 80) >> ELSE <<>>] :
        b \in {-1, 600000, 3500000}, r \in {50, 750, 900},
        bio \in {500, 800}, y \in { <<0, 0, 0>>, <<5, 250, 20000000>> },
        n \in {3, 10}, c \in BOOLEAN }

InitWin ==
    /\ state \in WinInputs
    /\ pc = "check_win"
    /\ quarter_count = 4 * state.years_operated
    /\ total_quarters = 60
    /\ todo = <<>>
    /\ verdict = ""
    /\ last = Did("quarter_end_summary")
    /\ submitted_in = << >>
    /\ focus = "calendar"

CheckWin ==
    /\ pc = "check_win"
    /\ verdict' = check_win_conditions(state)[2]
    /\ pc' = IF check_win_conditions(state)[1] THEN "over" ELSE "advance"
    /\ last' = Did("check_win_conditions")
    /\ UNCHANGED <<state, quarter_count, total_quarters, todo, focus, submitted_in>>

NextWin == CheckWin

SpecWin == InitWin /\ [][NextWin]_vars

----------------------------------------------------------------------------
(* Certification maintenance on its own: maintain_certifications applied  *)
(* to world states drawn from a bounded set.  The inputs are states of    *)
(* the SBS region at the start of a fourth quarter, holding one to three  *)
(* certifications, one of them possibly suspended and acquired again,     *)
(* with a budget on either side of the annual costs.                      *)

CertificationLists ==
    LET fsc == Certification("FSC", 2025, 25000, 200, 150)
        pefc == Certification("PEFC", 2025, 18000, 150, 100)
        sfi == Certification("SFI", 2025, 15000, 120, 80)
    IN { <<fsc>>, <<sfi>>, <<fsc, sfi>>, <<pefc, sfi>>, <<fsc, pefc, sfi>>,
         <<[fsc EXCEPT !.active = FALSE], sfi,
           Certification("FSC", 2026, 25000, 200, 150)>> }

MaintainInputs ==
    { [choose_region(GameState, 0) EXCEPT
          !.budget = b, !.reputation = r, !.biodiversity_score = bio,
          !.years_operated = 1, !.year = 2026, !.quarter = 4,
          !.certifications = c] :
        b \in {0, 10000, 16000, 30000, 45000, 100000}, r \in {350, 700},
        bio \in {350, 600}, c \in CertificationLists }

InitMaintain ==
    /\ state \in MaintainInputs
    /\ pc = "certs"
    /\ quarter_count = 8
    /\ total_quarters = 60
    /\ todo = <<>>
    /\ verdict = ""
    /\ last = Did("advance_quarter")
    /\ submitted_in = << >>
    /\ focus = "certification"

NextMaintain == MaintainCertifications

SpecMaintain == InitMaintain /\ [][NextMaintain]_vars

----------------------------------------------------------------------------
(* The responses to a crisis on their own: the handlers that let the       *)
(* player answer an anger event, a safety incident or the detection of an  *)
(* illegal activity, applied once to a first-quarter state whose budget    *)
(* lies on either side of the costs of the responses.                      *)

ResponseRolls == {0, 650, 999}

ResponseInputs ==
    { [choose_region(GameState, 0) EXCEPT !.budget = b, !.reputation = r] :
        b \in {40000, 400000, 1200000, 2455000, 6000000}, r \in {350, 650} }

InitResponses ==
    /\ state \in ResponseInputs
    /\ pc = "respond"
    /\ quarter_count = 1
    /\ total_quarters = FullGame
    /\ todo = <<>>
    /\ verdict = ""
    /\ last = Did("choose_region")
    /\ submitted_in = << >>
    /\ focus = "safety"

\* random_first_nations_anger_events with an event drawn
AngerResponse ==
    /\ pc = "respond"
    /\ \E angry \in 1..Len(state.first_nations), event \in {0, 1},
          choice \in {0, 1, 2}, r \in ResponseRolls :
          LET d == [r_event |-> 0, angry |-> angry, event |-> event,
                    choice |-> choice, r_success |-> r]
          IN /\ state' = random_first_nations_anger_events(state, d)
             /\ last' = [op |-> "random_first_nations_anger_events",
                         d |-> d, before |-> state]
    /\ pc' = "responded"
    /\ UNCHANGED <<quarter_count, total_quarters, todo, verdict, focus, submitted_in>>

\* workplace_safety_incidents with an incident drawn
SafetyResponse ==
    /\ pc = "respond"
    /\ \E d \in IncidentDraws(state, M) :
          /\ d.r_incident = 0
          /\ state' = workplace_safety_incidents(state, d)
          /\ last' = [op |-> "workplace_safety_incidents", d |-> d,
                      before |-> state]
    /\ pc' = "responded"
    /\ UNCHANGED <<quarter_count, total_quarters, todo, verdict, focus, submitted_in>>

\* _handle_criminal_detection for the detection of stage k
CriminalDetection ==
    /\ pc = "respond"
    /\ \E k \in 1..Len(complex_operation.stages) :
          LET caught == detection(complex_operation, k)
          IN \E choice \in
                   0..(Len(escape_options(state, caught.risk_level)) - 1),
                confirm \in {0, 1}, r1 \in ResponseRolls,
                r2 \in ResponseRolls :
                LET d == [choice |-> choice, confirm |-> confirm,
                          r_bribery |-> r1, r_legal |-> r2]
                IN /\ state' = _handle_criminal_detection(state, caught, d)
                   /\ last' = [op |-> "_handle_criminal_detection", d |-> d,
                               caught |-> caught, before |-> state]
    /\ pc' = "responded"
    /\ UNCHANGED <<quarter_count, total_quarters, todo, verdict, focus, submitted_in>>

\* _handle_simple_detection
SimpleDetection ==
    /\ pc = "respond"
    /\ \E a \in 1..Len(simple_operations), bribe \in {0, 1},
          r \in ResponseRolls :
          LET d == [bribe_choice |-> bribe, r_bribe |-> r]
          IN /\ state' = _handle_simple_detection(state, simple_operations[a], d)
             /\ last' = [op |-> "_handle_simple_detection", d |-> d,
                         act |-> a, before |-> state]
    /\ pc' = "responded"
    /\ UNCHANGED <<quarter_count, total_quarters, todo, verdict, focus, submitted_in>>

NextResponses ==
    \/ AngerResponse
    \/ SafetyResponse
    \/ CriminalDetection
    \/ SimpleDetection

SpecResponses == InitResponses /\ [][NextResponses]_vars

----------------------------------------------------------------------------
(* The spring handlers on their own, from states in which the cumulative   *)
(* disturbance is above or below the 0.7 x cap that makes a treaty nation   *)
(* invoke its treaty rights in a comprehensive consultation.               *)

TreatyInputs ==
    { [choose_region(GameState, r) EXCEPT
          !.budget = b,
          !.cumulative_disturbance =
              p * choose_region(GameState, r).disturbance_cap] :
        r \in {1, 2}, b \in {40000, 130000, 180000, 2500000},
        p \in {60, 80} }

InitTreaty ==
    /\ state \in TreatyInputs
    /\ pc = "policy"
    /\ quarter_count = 1
    /\ total_quarters = FullGame
    /\ todo = <<>>
    /\ verdict = ""
    /\ last = Did("initial_setup")
    /\ submitted_in = << >>
    /\ focus = "consultation"

NextTreaty ==
    \/ PolicyEvents
    \/ Consultation
    \/ PlanHarvest

SpecTreaty == InitTreaty /\ [][NextTreaty]_vars

----------------------------------------------------------------------------
(* Harvest planning on its own: plan_harvest_schedule applied once to the  *)
(* first-quarter states of 2026, after the plan of 2025, the annual        *)
(* decline of the cut and a fire in either spring; the draws go for the    *)
(* smallest blocks, so that the loop runs long.                            *)

PlanInputs ==
    { LET fire(st, f) == IF f = 1 THEN random_policy_events(st, 250) ELSE st
          s1 == fire(choose_region(GameState, r), f1)
          s2 == [s1 EXCEPT !.annual_allowable_cut =
                               Scale(@, 1000 - s1.aac_decline_rate, 1000),
                           !.cumulative_disturbance =
                               @ + planned_volumes(s1)[i + 1],
                           !.year = 2026, !.years_operated = 1]
      IN fire(s2, f2) :
        r \in {0, 1, 2}, f1 \in {0, 1}, f2 \in {0, 1}, i \in {0, 1, 2} }

InitPlan ==
    /\ state \in PlanInputs
    /\ pc = "plan"
    /\ quarter_count = 5
    /\ total_quarters = FullGame
    /\ todo = <<>>
    /\ verdict = ""
    /\ last = Did("advance_quarter")
    /\ submitted_in = << >>
    /\ focus = "planning"

NextPlan == PlanHarvest

SpecPlan == InitPlan /\ [][NextPlan]_vars

----------------------------------------------------------------------------
(* Claims                                                                  *)

\* the loss verdict the priority order selects for a state, "" if none
LossVerdict(st) ==
    IF st.budget < 0 THEN "BANKRUPTCY"
    ELSE IF st.reputation < 100 THEN "REPUTATION COLLAPSE"
    ELSE IF st.cumulative_disturbance > st.disturbance_cap * 120
    THEN "REGULATORY SHUTDOWN"
    ELSE ""

\* C1: whenever check_win_conditions has judged a state in which a loss
\* condition holds (budget < 0, reputation < 0.1, disturbance > 1.2 x cap),
\* the verdict is that loss verdict, in that order, never a win verdict.
C1_LossBeforeWin ==
    (last.op = "check_win_conditions" /\ LossVerdict(state) # "")
        => verdict = LossVerdict(state)

\* C2: in every reachable state 0 <= reputation <= 1.
C2_ReputationInRange ==
    0 <= state.reputation /\ state.reputation <= 1000

\* C3: in every reachable state every counterparty's relationship_level is
\* within [0, 1].
C3_RelationshipInRange ==
    \A k \in 1..Len(state.first_nations) :
        /\ 0 <= state.first_nations[k].relationship_level
        /\ state.first_nations[k].relationship_level <= 1000

\* C4: after a player-chosen paid action (a consultation approach, minimal
\* notice included, a liaison hiring, a batch of liaison suggestions, a
\* certification application, a permit submission) whose total cost exceeds
\* the budget held before it, the budget is what it was before.
C4_NoChargeBeyondBudget ==
    LET b == last.before
        need == nations_needing_consultation(b)
        batch == approved_suggestions(b, _generate_suggestions(b, b.fn_liaison),
                                      last.d.answers)
        cost ==
          IF last.op = "consultation" THEN
              IF need = {} THEN 0
              ELSE IF last.choice = 0 THEN 2 * SumCost(b, 1, need)
              ELSE IF last.choice = 1 THEN SumCost(b, 1, need)
              ELSE IF last.choice = 2 THEN 2000 * Cardinality(need)
              ELSE 0
          ELSE IF last.idx = 0 THEN
              5000 * Len(blocks_to_process(b, last.d.strategy, last.d.tokens))
              + 10000 * Cardinality(
                  { j \in DOMAIN blocks_to_process(b, last.d.strategy,
                                                   last.d.tokens) :
                      LET blk == b.harvest_blocks[
                             blocks_to_process(b, last.d.strategy,
                                               last.d.tokens)[j]]
                      IN ~blk.first_nations_agreement \/ blk.old_growth_affected })
          ELSE IF last.idx = 1 THEN
              IF b.fn_liaison = "none"
              THEN IF last.d.hire < 3 THEN liaison_types[last.d.hire + 1].cost
                   ELSE 0
              ELSE SumSeq([j \in 1..Len(batch) |-> batch[j].cost])
          ELSE IF last.idx = 3 THEN
              IF last.d.choice < Len(available_certs(b))
              THEN cert_info[available_certs(b)[last.d.choice + 1]].cost
              ELSE 0
          ELSE 0
    IN (last.op \in {"consultation", "activity"} /\ cost > b.budget)
           => state.budget = b.budget

\* C5: a permit submission is all-or-nothing.  With total the cost of the
\* selected blocks (5000 each, plus 10000 for each one lacking an agreement
\* or touching old growth): if total exceeds the budget, the budget is
\* unchanged and no selected block has its submission year or processing
\* time set; otherwise, once the player confirms, the budget has dropped by
\* exactly total and every selected block carries the submission year.
C5_PermitAllOrNothing ==
    (last.op = "activity" /\ last.idx = 0) =>
        LET b == last.before
            sel == IF last.d.strategy = 3 /\ last.d.invalid THEN <<>>
                   ELSE blocks_to_process(b, last.d.strategy, last.d.tokens)
            complex == { j \in DOMAIN sel :
                           \/ ~b.harvest_blocks[sel[j]].first_nations_agreement
                           \/ b.harvest_blocks[sel[j]].old_growth_affected }
            total == 5000 * Len(sel) + 10000 * Cardinality(complex)
        IN /\ total > b.budget =>
                /\ state.budget = b.budget
                /\ \A j \in DOMAIN sel :
                      /\ state.harvest_blocks[sel[j]].permit_submitted
                            = b.harvest_blocks[sel[j]].permit_submitted
                      /\ state.harvest_blocks[sel[j]].processing_time
                            = b.harvest_blocks[sel[j]].processing_time
           /\ (total <= b.budget /\ sel # <<>> /\ last.d.confirm = 0) =>
                /\ state.budget = b.budget - total
                /\ \A j \in DOMAIN sel :
                      state.harvest_blocks[sel[j]].permit_submitted = b.year

\* C5 witness: a submission of at least one block was refused for lack of
\* budget
C5_Refused ==
    /\ last.op = "activity" /\ last.idx = 0
    /\ blocks_to_process(last.before, last.d.strategy, last.d.tokens) # <<>>
    /\ last.before.budget
         < 5000 * Len(blocks_to_process(last.before, last.d.strategy,
                                        last.d.tokens))

\* C6: process_permits is idempotent within a quarter: called again on the
\* state it has just produced, in the same quarter, it changes nothing,
\* whatever the random draws.
C6_ProcessPermitsIdempotent ==
    last.op = "process_permits" =>
        \A r \in Rolls :
            process_permits(state, [k \in DOMAIN state.harvest_blocks |-> r])
                = state

\* C6 witness: process_permits has just decided at least one application
C6_Decided ==
    last.op = "process_permits" /\ last.decided # {}

C8_SubmissionSkipsDecided ==
    (last.op = "activity" /\ last.idx = 0) =>
        LET b == last.before
            sel == blocks_to_process(b, last.d.strategy, last.d.tokens)
            decided == { k \in DOMAIN b.harvest_blocks :
                           b.harvest_blocks[k].permit_status
                               \in {"approved", "denied"} }
            open == { k \in DOMAIN b.harvest_blocks :
                        b.harvest_blocks[k].permit_status = "pending" }
            fee(k) == IF ~b.harvest_blocks[k].first_nations_agreement
                         \/ b.harvest_blocks[k].old_growth_affected
                      THEN 15000 ELSE 5000
        IN /\ \A k \in decided :
                /\ k \notin Range(sel)
                /\ state.harvest_blocks[k] = b.harvest_blocks[k]
           /\ b.budget - state.budget
                <= SumSeq([j \in DOMAIN sel |->
                             IF sel[j] \in open THEN fee(sel[j]) ELSE 0])

\* C8 witness: a submission went through while a decided block was on the
\* list
C8_SubmittedBesideDecided ==
    /\ last.op = "activity" /\ last.idx = 0
    /\ state.budget < last.before.budget
    /\ \E k \in DOMAIN last.before.harvest_blocks :
          last.before.harvest_blocks[k].permit_status \in {"approved", "denied"}

\* C9: for each certification kind at most one record is active, also after
\* a certification was dropped or suspended and acquired again.
C9_OneActivePerKind ==
    \A t \in Range(CertificationType) :
        Cardinality({ k \in DOMAIN state.certifications :
                        /\ state.certifications[k].cert_type = t
                        /\ state.certifications[k].active }) <= 1

\* C9 witness: a kind that was dropped or suspended has been acquired again
C9_Reacquired ==
    \E k \in DOMAIN state.certifications :
        \E j \in DOMAIN state.certifications :
            /\ state.certifications[k].cert_type = state.certifications[j].cert_type
            /\ ~state.certifications[k].active
            /\ state.certifications[j].active

\* C12: after a consultation step that resolved with any of the four
\* approaches and was not aborted for lack of funds, every counterparty that
\* needed consultation has last_consultation_year equal to the current year.
C12_ConsultationResetsClock ==
    LET b == last.before
        need == nations_needing_consultation(b)
        aborted == \/ last.choice = 0 /\ b.budget < 2 * SumCost(b, 1, need)
                   \/ last.choice = 1 /\ b.budget < SumCost(b, 1, need)
    IN (last.op = "consultation" /\ last.asked /\ ~aborted /\ ~state.raised)
           => \A i \in need :
                 state.first_nations[i].last_consultation_year = state.year

C16_ApprovalProbability ==
    /\ approval_chance(GameState,
           [HarvestBlock("b", 10000, 2025, FALSE, 2) EXCEPT
                !.first_nations_agreement = TRUE]) = 7000
    /\ last.op = "process_permits" =>
        LET b == last.before
            denied_before(k) ==
                Cardinality({ j \in last.decided :
                    j < k /\ state.harvest_blocks[j].permit_status = "denied" })
            p(k) ==
                LET blk == b.harvest_blocks[k]
                    certs == Cardinality({ n \in DOMAIN b.certifications :
                                             b.certifications[n].active })
                IN 7000 + 10 * b.permit_bonus
                   + 3 * (b.reputation - 50 * denied_before(k) - 500)
                   + (IF certs >= 2 THEN 2000 ELSE 1000 * certs)
                   + (IF blk.disaster_affected THEN 1000 ELSE 0)
                   - (IF blk.old_growth_affected /\ b.old_growth_deferrals_expanded
                      THEN 4000 ELSE 0)
                   - (IF ~blk.first_nations_agreement THEN 3000 ELSE 0)
                   - (IF b.cumulative_disturbance > 100 * b.disturbance_cap
                      THEN 5000 ELSE 0)
        IN \A k \in last.decided :
              (state.harvest_blocks[k].permit_status = "approved")
                  <=> (last.R[k] * 10 < p(k))

\* C16 witness: a block was decided while a certification was active
C16_DecidedWithCertification ==
    /\ last.op = "process_permits"
    /\ \E k \in last.decided :
          /\ get_active_certifications(last.before) # <<>>
          /\ state.harvest_blocks[k].permit_status \in {"approved", "denied"}

\* C17: a harvest with no active certification, no disaster and good weather
\* earns total approved volume x revenue_per_m3, costs total approved volume
\* x operating_cost_per_m3, adds the difference to the budget and adds the
\* revenue and the cost to the running totals; 10,000 m3 at 85 and 45 give
\* 850,000, 450,000 and 400,000
C17_PlainHarvest ==
    LET b == last.before
        approved == { k \in 1..Len(b.harvest_blocks) :
                        b.harvest_blocks[k].permit_status = "approved" }
        volume == SumOver([k \in approved |-> b.harvest_blocks[k].volume_m3],
                          approved)
        revenue == volume * b.revenue_per_m3
        cost == volume * b.operating_cost_per_m3
        example ==
            conduct_harvest_operations(
                [GameState EXCEPT !.revenue_per_m3 = 85,
                                  !.operating_cost_per_m3 = 45,
                                  !.harvest_blocks =
                                      <<[HarvestBlock("b", 10000, 2025, FALSE, 2)
                                           EXCEPT !.permit_status = "approved"]>>],
                [disaster_chance |-> 900, hit |-> <<>>,
                 sanitation_choice |-> 0, weather_event |-> 900])
    IN /\ example.total_revenue = GameState.total_revenue + 850000
       /\ example.total_costs = GameState.total_costs + 450000
       /\ example.budget = GameState.budget + 400000
       /\ ( /\ last.op = "conduct_harvest_operations"
            /\ approved # {}
            /\ \A j \in 1..Len(b.certifications) : ~b.certifications[j].active
            /\ disaster_kind(last.d.disaster_chance) = "none"
            /\ last.d.weather_event >= 250 )
          => /\ state.budget = b.budget + revenue - cost
             /\ state.total_revenue = b.total_revenue + revenue
             /\ state.total_costs = b.total_costs + cost

\* C17 witness: two approved blocks were harvested in good weather with no
\* disaster and no certification
C17_Harvested ==
    /\ last.op = "conduct_harvest_operations"
    /\ last.harvested >= 2
    /\ \A j \in 1..Len(last.before.certifications) :
           ~last.before.certifications[j].active
    /\ disaster_kind(last.d.disaster_chance) = "none"
    /\ last.d.weather_event >= 250
    /\ state.total_revenue > last.before.total_revenue

C19_DisturbanceNeverDecreases ==
    [][ /\ state'.cumulative_disturbance >= state.cumulative_disturbance
        /\ state'.disturbance_cap < state.disturbance_cap
              => state'.cumulative_disturbance = state.cumulative_disturbance
        /\ pc = "choose_region" =>
           \A r \in 0..2, t \in 0..2, a \in Rolls, c \in Rolls :
              LET s == [choose_region(GameState, r) EXCEPT
                           !.cumulative_disturbance = @ + 80 * 30000]
                  n == _trigger_treaty_negotiations(
                           s, 1, [DefaultDraw EXCEPT !.treaty_choice = t,
                                                     !.r_accept = a,
                                                     !.r_court = c])
              IN /\ n.cumulative_disturbance = s.cumulative_disturbance
                 /\ t \in {0, 1} => n.disturbance_cap < s.disturbance_cap
      ]_vars

\* C19 witness: a second harvest plan has added to the disturbance of the
\* first
C19_PlannedAgain ==
    /\ last.op = "plan_harvest_schedule"
    /\ state.year > 2025
    /\ state.cumulative_disturbance > planned_volumes(state)[3]

\* what is left of the run: the quarters not yet begun, then the steps of
\* the quarter in hand, then the activities still to execute
Remaining ==
    IF pc \in {"done", "over", "crashed"} THEN 0
    ELSE (total_quarters - quarter_count) * 64 + Len(todo)
         + ( CASE pc = "choose_region" -> 63
               [] pc = "initial_setup" -> 62
               [] pc \in {"policy", "permits", "certs"} -> 60
               [] pc \in {"consult", "harvest", "market"} -> 59
               [] pc \in {"plan", "fees"} -> 58
               [] pc = "incident" -> 57
               [] pc = "blackmail" -> 56
               [] pc = "aftermath" -> 55
               [] pc = "manage" -> 40
               [] pc = "activity" -> 5
               [] pc = "summary" -> 4
               [] pc = "continue" -> 3
               [] pc = "advance" -> 2 )

\* C20: the quarterly driver terminates: every step brings the run nearer to
\* its end; the loop begins at most 60 quarters; a run ends early at the
\* first quarter end with a verdict or when the player stops at a quarter-4
\* prompt; "play 1 more quarter only" leaves exactly one further quarter
C20_DriverTerminates ==
    [][ /\ Remaining' < Remaining
        /\ Remaining' >= 0
        /\ total_quarters' <= total_quarters /\ total_quarters <= FullGame
        /\ quarter_count' \in {quarter_count, quarter_count + 1}
        /\ quarter_count' <= total_quarters'
        /\ (verdict' # "") = (pc' = "over")
        /\ pc' = "over" => pc = "summary"
        /\ pc = "summary" /\ check_win_conditions(state')[1] => pc' = "over"
        /\ pc = "continue"
              => /\ state.quarter = 4
                 /\ last'.choice = 1 => pc' = "done"
                 /\ last'.choice = 2
                       => pc' = "advance" /\ total_quarters' = quarter_count + 1
        /\ pc = "advance"
              => IF quarter_count < total_quarters
                 THEN quarter_count' = quarter_count + 1
                      /\ pc' \in {"policy", "permits", "certs"}
                 ELSE pc' = "done"
      ]_vars

\* C20 witness: the player chose "play 1 more quarter only" at the end of
\* the fourth quarter and the run ended after the fifth
C20_OneMoreQuarter ==
    /\ pc = "done"
    /\ last.op = "advance_quarter"
    /\ quarter_count = 5
    /\ total_quarters = 5
    /\ state.year = 2026 /\ state.quarter = 2

\* C11: a corrupt official created by the safety-incident step of a quarter
\* does not face the blackmail roll of ongoing_criminal_consequences in
\* that same quarter: when the blackmail step follows a safety step that
\* added an official, no demand is made in it.
C11_NoBlackmailInSameQuarter ==
    (last.op = "ongoing_criminal_consequences" /\ last.fresh)
        => ~last.demanded

\* the budget left when workplace_safety_incidents tests whether the
\* response can be paid: the immediate costs and the revenue lost to the
\* suspension are gone
BudgetAtResponse(b, incident) ==
    b.budget - incident.immediate_costs
        - (IF incident.suspended_days > 0
           THEN (b.revenue_per_m3 * b.annual_allowable_cut
                    * incident.suspended_days) \div 365
           ELSE 0)

\* C14: at each of the three call sites, a chosen response whose cost
\* exceeds the budget never has its success effects applied.  Anger event:
\* nothing is paid and the nation and the reputation take the extra
\* penalties of 0.2 and 0.15 on top of the event's own.  Safety incident
\* (legal responses): the full WorkSafeBC fine is charged and the reputation
\* shows the incident's penalty only.  Criminal detection (legal
\* responses): the full base fine is charged.
C14_UnaffordableResponseFails ==
    /\ last.op = "random_first_nations_anger_events" =>
          LET b == last.before
              event == anger_events[last.d.event + 1]
              response == event.response_options[last.d.choice + 1]
              nation == b.first_nations[last.d.angry]
          IN response.cost > b.budget =>
                /\ state.budget = b.budget
                /\ state.first_nations[last.d.angry].relationship_level
                      = Max(0, Max(0, nation.relationship_level
                                         - event.relationship_penalty) - 200)
                /\ state.reputation
                      = Max(0, Max(0, b.reputation
                                         - event.reputation_penalty) - 150)
    /\ (last.op = "workplace_safety_incidents"
           /\ ~response_options[last.d.choice + 1].illegal) =>
          LET b == last.before
              incident == incidents[last.d.incident + 1]
              response == response_options[last.d.choice + 1]
          IN response.cost > BudgetAtResponse(b, incident) =>
                /\ state.budget
                      = BudgetAtResponse(b, incident) - incident.wsbc_fine
                /\ state.reputation
                      = Max(0, b.reputation - incident.reputation_penalty)
    /\ last.op = "_handle_criminal_detection" =>
          LET b == last.before
              option == escape_options(b, last.caught.risk_level)
                            [last.d.choice + 1]
          IN (~option.illegal /\ option.cost > b.budget) =>
                state.budget = b.budget - base_fine_of(last.caught)

\* C15: a detected bribe at the base tier is fined at least twice the base
\* fine and takes at least as much from the budget as any legal response
\* to the same incident would: the WorkSafeBC inspector bribe against the
\* three legal safety responses, the layer-1 bribe against accepting the
\* consequences or hiring lawyers, the simple-crime bribe against
\* accepting the fine.
C15_DetectedBriberyCostsMore ==
    /\ (last.op = "workplace_safety_incidents"
           /\ response_options[last.d.choice + 1].illegal
           /\ last.d.confirm = 0
           /\ BudgetAtResponse(last.before, incidents[last.d.incident + 1])
                 >= response_options[last.d.choice + 1].cost
           /\ last.d.r_detect
                 < response_options[last.d.choice + 1].detection_risk) =>
          LET b == last.before
              incident == incidents[last.d.incident + 1]
              response == response_options[last.d.choice + 1]
          IN /\ BudgetAtResponse(b, incident) - response.cost - state.budget
                   >= 2 * incident.wsbc_fine
             /\ \A c \in 0..2 :
                   state.budget
                     <= workplace_safety_incidents(
                            b, [last.d EXCEPT !.choice = c]).budget
    /\ (last.op = "_handle_criminal_detection"
           /\ last.d.choice = 2 /\ last.d.confirm = 0
           /\ last.before.budget >= 300000
           /\ last.d.r_bribery >= 600) =>
          LET b == last.before
          IN /\ b.budget - 300000 - state.budget
                   >= 2 * base_fine_of(last.caught)
             /\ \A c \in {0, 1}, r \in ResponseRolls :
                   state.budget
                     <= _handle_criminal_detection(
                            b, last.caught,
                            [last.d EXCEPT !.choice = c, !.r_legal = r]).budget
    /\ last.op = "_handle_simple_detection" =>
          LET b == last.before
              act == simple_operations[last.act]
              bribe_amount == Scale(act.fine_amount, 3, 10)
          IN (act.fine_amount < 600000
                /\ b.budget - act.fine_amount > 50000
                /\ b.budget - act.fine_amount >= bribe_amount
                /\ last.d.bribe_choice = 0 /\ last.d.r_bribe >= 400) =>
                /\ b.budget - bribe_amount - state.budget
                      >= 2 * act.fine_amount
                /\ state.budget
                      <= _handle_simple_detection(
                             b, act, [last.d EXCEPT !.bribe_choice = 1]).budget

\* C21: a custom selection line with tokens that are not numbers or are out
\* of range still selects every valid index on it.  Permit submission: when
\* the fees are covered and the player confirms, every pending block named
\* by an in-range token is submitted.  Management activities: when the
\* costs are covered, the activities to execute are those named by the
\* in-range tokens, in the order typed.
C21_InvalidTokensDiscarded ==
    /\ (last.op = "activity" /\ last.idx = 0 /\ last.d.strategy = 3) =>
          LET b == last.before
              avail == blocks_to_submit(b)
              named == { avail[x] : x \in Range(last.d.tokens)
                                            \cap 1..Len(avail) }
          IN (last.d.confirm = 0
                /\ b.budget >= 15000 * Len(last.d.tokens)) =>
                \A k \in named :
                    state.harvest_blocks[k].permit_submitted = b.year
    /\ last.op = "annual_management_decisions" =>
          LET n == Len(last.selection)
          IN state.budget >= 30000 * n * (n + 1) =>
                [i \in 1..Len(todo) |-> todo[i].idx]
                  = SelectSeq(last.selection,
                              LAMBDA i : i \in 0..(Len(base_cost) - 1))

\* C22: a subsystem that finds its input collection empty changes no field
\* of the state: process_permits without a submitted pending block, the
\* consultation without a nation that needs one, maintain_certifications
\* without an active certification, the harvest without an approved block,
\* the permit submission without a pending block.
C22_EmptyInputNoOp ==
    /\ (last.op = "process_permits" /\ pending_blocks(last.before) = {})
          => state = last.before
    /\ (last.op = "consultation" /\ ~last.asked) => state = last.before
    /\ (last.op = "maintain_certifications"
           /\ get_active_certifications(last.before) = <<>>)
          => state = last.before
    /\ (last.op = "conduct_harvest_operations"
           /\ approved_positions(last.before) = {})
          => state = last.before
    /\ (last.op = "activity" /\ last.idx = 0
           /\ blocks_to_submit(last.before) = <<>>)
          => state = last.before

\* the permit submission was chosen while no block was pending
C22_SubmissionWithoutBlocks ==
    /\ last.op = "activity" /\ last.idx = 0
    /\ blocks_to_submit(last.before) = <<>>

\* C23: when the harvest returns, no block of harvest_blocks has the status
\* approved.
C23_NoApprovedAfterHarvest ==
    last.op = "conduct_harvest_operations" => approved_positions(state) = {}

\* C24: once the evaluation at a quarter end has returned a verdict, the
\* driver changes the world no more: after the step that evaluated a state
\* as game over, no step changes the game state, the time cursor included,
\* or begins another quarter.
C24_VerdictEndsTheRun ==
    [][ (last.op = "quarter_end_summary" /\ check_win_conditions(state)[1])
           => /\ state' = state
              /\ quarter_count' = quarter_count
              /\ pc' = "over"
      ]_vars

\* C24 witness: a verdict returned at the end of one of the first three
\* quarters of a year, the run over with the time cursor where it was
C24_VerdictMidYear ==
    /\ pc = "over"
    /\ verdict # ""
    /\ last.op = "quarter_end_summary"
    /\ check_win_conditions(state) = <<TRUE, verdict>>
    /\ state.quarter \in {1, 2, 3}

\* the ids of the blocks of st whose status is one of statuses
ids_with(st, statuses) ==
    { st.harvest_blocks[k].id :
        k \in { j \in 1..Len(st.harvest_blocks) :
                  st.harvest_blocks[j].permit_status \in statuses } }

\* C25: a block goes from pending to approved or denied only in a step
\* that is the permit resolution pass of quarter 2 or quarter 3; the pass
\* is over before the harvest of the same quarter begins: the harvest is
\* the very next step, in the same quarter, and it takes out of
\* harvest_blocks every block the pass has just approved.
C25_ResolutionThenHarvest ==
    [][ /\ ids_with(state, {"pending"})
              \cap ids_with(state', {"approved", "denied"}) # {}
           => /\ last'.op = "process_permits"
              /\ state.quarter \in {2, 3}
              /\ pc = "permits" /\ pc' = "harvest"
        /\ pc = "harvest"
           => /\ last.op = "process_permits"
              /\ last'.op = "conduct_harvest_operations"
              /\ state'.year = state.year /\ state'.quarter = state.quarter
              /\ (ids_with(last.before, {"pending"})
                     \cap ids_with(state, {"approved"}))
                    \cap ids_with(state', PermitStatus) = {}
      ]_vars

\* C25 witness: the fall harvest has taken a block that the resolution
\* pass of the same quarter approved
C25_ApprovedAndHarvestedInFall ==
    /\ last.op = "conduct_harvest_operations"
    /\ state.quarter = 3
    /\ \E id \in ids_with(last.before, {"approved"}) :
          /\ id.sanitation = 0
          /\ id \notin ids_with(state, PermitStatus)

\* C26: every quarter begins in a state where no loss condition holds: when
\* the first handler of a quarter is about to run, budget >= 0,
\* reputation >= 0.1 and cumulative_disturbance <= 1.2 x disturbance_cap.
C26_QuarterBeginsWithoutLoss ==
    pc \in {Season(1), Season(2), Season(4)}
       => /\ state.budget >= 0
          /\ state.reputation >= 100
          /\ state.cumulative_disturbance <= state.disturbance_cap * 120

\* C26 witness: a later quarter begins after a quarter the company ended
\* with a reputation below 0.3
C26_BeginsNearCollapse ==
    /\ pc \in {Season(1), Season(2), Season(4)}
    /\ last.op = "advance_quarter"
    /\ quarter_count >= 2
    /\ state.reputation < 300

\* C27: a permit decision is never made before the time that has really
\* passed since the block was submitted reaches its threshold: for every
\* block the resolution pass decides, 90 x (the number of quarters the time
\* cursor advanced between the submission of the block and the decision)
\* >= the processing_time of the block.
C27_DecisionAfterRealTime ==
    last.op = "process_permits"
       => \A k \in last.decided :
             LET b == last.before.harvest_blocks[k]
             IN /\ b.id \in DOMAIN submitted_in
                /\ 90 * (quarter_count - submitted_in[b.id]) >= b.processing_time

\* C28: each block is submitted at most once: a permit submission leaves
\* the submission year and the processing_time of every block that already
\* has a submission year as they are, and charges no fee for such a block:
\* what it charges is at most the fee and the surcharge of the blocks
\* submitted for the first time.
C28_SubmittedOnce ==
    (last.op = "activity" /\ last.idx = 0)
       => LET b == last.before
              again == { k \in 1..Len(b.harvest_blocks) :
                           b.harvest_blocks[k].permit_submitted > 0 }
              fresh == { k \in 1..Len(b.harvest_blocks) :
                           /\ b.harvest_blocks[k].permit_submitted = 0
                           /\ state.harvest_blocks[k].permit_submitted > 0 }
          IN /\ \A k \in again :
                   /\ state.harvest_blocks[k].permit_submitted
                         = b.harvest_blocks[k].permit_submitted
                   /\ state.harvest_blocks[k].processing_time
                         = b.harvest_blocks[k].processing_time
             /\ b.budget - state.budget <= 15000 * Cardinality(fresh)

\* C29: every submitted pending block is decided no later than the
\* quarter-2 resolution pass of the year after its submission year: from
\* the end of that pass to the end of the year, no block is pending with a
\* submission year before the current year (a block submitted again
\* carries the year of its latest submission).
C29_DecidedByNextSummer ==
    (state.quarter \in {3, 4} \/ (state.quarter = 2 /\ pc # "permits"))
       => \A k \in pending_blocks(state) :
             state.harvest_blocks[k].permit_submitted = state.year

\* C29 witness: the quarter-2 pass has decided a block submitted the year
\* before with the longest processing time a submission can set (old
\* growth, low priority, noise +60: 420 days)
C29_SlowestDecidedAtDeadline ==
    /\ last.op = "process_permits"
    /\ state.quarter = 2
    /\ \E k \in last.decided :
          /\ last.before.harvest_blocks[k].permit_submitted = state.year - 1
          /\ last.before.harvest_blocks[k].processing_time = 420

DelayLoopUpTo(n) ==
    ForEachNation(last.before, 1,
                  nations_needing_consultation(last.before) \cap 1..n,
                  last.D, 3)

\* the legal challenge of counterparty i in that loop was entered and the
\* court ruled against the company
ChallengeLost(i) ==
    LET pre == DelayLoopUpTo(i - 1)
    IN /\ last.op = "consultation" /\ last.asked /\ last.choice = 3
       /\ i \in nations_needing_consultation(last.before)
       /\ last.before.first_nations[i].treaty_area
       /\ ~pre.raised
       /\ last.D[i].r_court * 10
             >= 3000 + 3 * (pre.first_nations[i].relationship_level - 300)
                + 2 * pre.reputation

\* C31: after a lost legal challenge no block of the collection is
\* approved (every block that was approved is delayed), the status of every
\* block that was not approved is unchanged, and reputation and the
\* relationship_level of the challenger have each been lowered.
C31_LostChallengeSuspends ==
    \A i \in 1..Len(state.first_nations) :
       ChallengeLost(i)
          => LET pre == DelayLoopUpTo(i - 1)
                 post == DelayLoopUpTo(i)
             IN /\ \A k \in 1..Len(pre.harvest_blocks) :
                      post.harvest_blocks[k].permit_status
                         = IF pre.harvest_blocks[k].permit_status = "approved"
                           THEN "delayed"
                           ELSE pre.harvest_blocks[k].permit_status
                /\ post.reputation < pre.reputation
                /\ post.first_nations[i].relationship_level
                      < pre.first_nations[i].relationship_level - 300

\* C33: a legal challenge completes normally in every reachable state,
\* also when the collection holds a block that an earlier lost challenge
\* set to delayed: no error is raised while the loss branch scans the
\* blocks.
C33_ChallengeCompletes ==
    ~state.raised /\ pc # "crashed"

C34_FreezeNeverRaisesBudget ==
    last.op = "_handle_criminal_detection" =>
       LET b == last.before
           option == escape_options(b, last.caught.risk_level)[last.d.choice + 1]
       IN (option.bribery_layer >= 3 /\ last.d.confirm = 0
             /\ b.budget >= option.cost
             /\ last.d.r_bribery >= option.success_chance)
          => state.budget
                <= b.budget - option.cost
                   - base_fine_of(last.caught) * (2 + option.bribery_layer)

\* the comprehensive consultation recorded in last ran its loop (some
\* counterparty needed consultation and the budget covered the cost)
ComprehensiveRan ==
    /\ last.op = "consultation" /\ last.asked /\ last.choice = 0
    /\ last.before.budget
          >= 2 * SumCost(last.before, 1,
                         nations_needing_consultation(last.before))

\* the state that loop has reached when it has handled the counterparties
\* up to number n
ComprehensiveLoopUpTo(n) ==
    LET need == nations_needing_consultation(last.before)
    IN ForEachNation([last.before EXCEPT
                         !.budget = @ - 2 * SumCost(last.before, 1, need)],
                     1, need \cap 1..n, last.D, 0)

\* what C35 says of the handler that has just run: the cap is what it was
\* unless a comprehensive consultation ran; in that consultation the
\* handling of each counterparty leaves the cap at int(0.8 x cap) when the
\* treaty negotiation was entered and the full concession was chosen with
\* at least 100,000 in the budget (the relationship is then 0.8 and the
\* agreement signed), at int(0.9 x cap) when the compromise was chosen
\* with at least 50,000, and as it was otherwise.
CapAfterHandler ==
    IF ~ComprehensiveRan
    THEN last.op = "consultation"
            => state.disturbance_cap = last.before.disturbance_cap
    ELSE /\ state.disturbance_cap
               = ComprehensiveLoopUpTo(Len(state.first_nations)).disturbance_cap
         /\ \A i \in nations_needing_consultation(last.before) :
               LET pre == ComprehensiveLoopUpTo(i - 1)
                   post == ComprehensiveLoopUpTo(i)
                   negotiated ==
                       /\ ~pre.raised
                       /\ pre.first_nations[i].treaty_area
                       /\ pre.cumulative_disturbance > pre.disturbance_cap * 70
                   t == last.D[i].treaty_choice
               IN IF negotiated /\ t = 0 /\ pre.budget >= 100000
                  THEN /\ post.disturbance_cap = Scale(pre.disturbance_cap, 8, 10)
                       /\ post.first_nations[i].relationship_level = 800
                       /\ post.first_nations[i].agreement_signed
                  ELSE IF negotiated /\ t = 1 /\ pre.budget >= 50000
                  THEN post.disturbance_cap = Scale(pre.disturbance_cap, 9, 10)
                  ELSE post.disturbance_cap = pre.disturbance_cap

\* C35: the disturbance cap never increases after setup and changes only
\* inside the treaty negotiation, to int(0.8 x cap) on an affordable full
\* concession and to int(0.9 x cap) on an affordable compromise; it is
\* unchanged when the chosen option is unaffordable or the demand is
\* rejected; the full concession also sets the relationship to 0.8 and
\* signs the agreement.
C35_CapOnlyLoweredByTreaty ==
    [][ /\ state'.disturbance_cap <= state.disturbance_cap
        /\ pc # "consult" => state'.disturbance_cap = state.disturbance_cap
        /\ pc = "consult" => CapAfterHandler'
      ]_vars

\* C35 witness: a comprehensive consultation in which the first treaty
\* nation was granted the full concession and the second, with less than
\* 50,000 left in the budget, got nothing: the cap is 0.8 x its old value
C35_OneConcessionAffordable ==
    /\ ComprehensiveRan
    /\ last.before.budget = 180000
    /\ last.D[1].treaty_choice = 0 /\ last.D[2].treaty_choice \in {0, 1}
    /\ state.first_nations[2].treaty_area
    /\ state.disturbance_cap = Scale(last.before.disturbance_cap, 8, 10)
    /\ state.first_nations[1].relationship_level = 800
    /\ ~state.first_nations[2].agreement_signed

\* C36: a harvest execution with at least one approved block increments
\* consecutive_profitable_years by exactly 1 when its net profit is
\* positive and resets it to 0 otherwise; a harvest call without an approved
\* block, and every other step, leaves the counter unchanged.
C36_CounterFollowsHarvestProfit ==
    [][ IF pc = "harvest" /\ approved_positions(state) # {}
        THEN /\ state'.quarterly_profit > 0
                   => state'.consecutive_profitable_years
                         = state.consecutive_profitable_years + 1
             /\ state'.quarterly_profit <= 0
                   => state'.consecutive_profitable_years = 0
        ELSE state'.consecutive_profitable_years
                = state.consecutive_profitable_years
      ]_vars

\* C36 witness: a harvest of approved blocks at a loss has reset a counter
\* that an earlier profitable harvest had raised
C36_LossResetsCounter ==
    /\ last.op = "conduct_harvest_operations"
    /\ last.harvested > 0
    /\ last.before.consecutive_profitable_years > 0
    /\ state.quarterly_profit <= 0
    /\ state.consecutive_profitable_years = 0

\* C37: certification maintenance never drives the budget negative and
\* never keeps an unpaid certification: when it returns with certifications
\* that were active at its start, either the budget covered the summed
\* annual cost of the certifications still active after the player's
\* optional drop and that cost was deducted (every certification active at
\* the end is one of those paid for), or no certification is active, the
\* budget is what it was and reputation was lowered by the flat 0.3 (on top
\* of the penalty of the drop, if the player dropped one).
C37_PaidOrAllLost ==
    LET b == last.before
        act == { k \in 1..Len(b.certifications) : b.certifications[k].active }
        due == SumOver([k \in act |-> b.certifications[k].annual_cost], act)
        drops == b.budget < due /\ last.d.drop_choice < Cardinality(act)
        dropped == IF drops
                   THEN { CHOOSE k \in act :
                            Cardinality({ j \in act : j < k })
                                = last.d.drop_choice }
                   ELSE {}
        kept == act \ dropped
        rest == SumOver([k \in kept |-> b.certifications[k].annual_cost], kept)
        penalty == SumOver([k \in dropped |->
                               b.certifications[k].reputation_bonus \div 2],
                           dropped)
        still_active == { k \in 1..Len(state.certifications) :
                             state.certifications[k].active }
    IN last.op = "maintain_certifications" =>
          IF act = {} THEN state = b
          ELSE /\ b.budget >= 0 => state.budget >= 0
               /\ IF b.budget >= rest
                  THEN /\ still_active \subseteq kept
                       /\ state.budget <= b.budget - rest
                       /\ still_active = kept
                             => state.budget
                                   \in { b.budget - rest - 25000 * n :
                                           n \in 0..(2 * Cardinality(kept)) }
                  ELSE /\ still_active = {}
                       /\ state.budget = b.budget
                       /\ state.reputation = b.reputation - penalty - 300

\* C37 witness: the budget covered neither both certifications nor the one
\* left after the drop, and both were lost without a charge
C37_DroppedAndStillShort ==
    /\ last.op = "maintain_certifications"
    /\ Len(active_positions(last.before)) = 2
    /\ last.d.drop_choice < 2
    /\ last.before.budget >= 0
    /\ active_positions(state) = <<>>
    /\ state.budget = last.before.budget
    /\ state.reputation < last.before.reputation - 300

\* the number of SFI certification records of a state
SFIRecords(st) ==
    Cardinality({ k \in 1..Len(st.certifications) :
                     st.certifications[k].cert_type = "SFI" })

\* C38: social_license_maintained is monotone: once it is false no step
\* sets it back to true, and from then on the verdict is never the
\* environmental-steward win, the SFI requirements are never met and no SFI
\* certification is obtained.
C38_LicenceNeverRegained ==
    [][ ~state.social_license_maintained
           => /\ ~state'.social_license_maintained
              /\ verdict' # "ENVIRONMENTAL STEWARD"
              /\ check_win_conditions(state')[2] # "ENVIRONMENTAL STEWARD"
              /\ ~_check_certification_requirements(state', "SFI")
              /\ SFIRecords(state') = SFIRecords(state)
      ]_vars

\* C38 witness: after the licence was lost the player applied for the SFI
\* certification with the money, the reputation and the biodiversity score
\* it asks for, and was refused
C38_SFIRefusedWithoutLicence ==
    /\ last.op = "activity" /\ last.idx = 3
    /\ ~last.before.social_license_maintained
    /\ last.d.choice < Len(available_certs(last.before))
    /\ available_certs(last.before)[last.d.choice + 1] = "SFI"
    /\ last.before.budget >= cert_info["SFI"].cost
    /\ last.before.reputation >= 300
    /\ last.before.biodiversity_score >= 300
    /\ state = last.before

\* C39: harvest planning appends at most 20 new blocks, each pending and
\* of positive volume, whose volumes sum to at most the planned volume;
\* the planned volume is one of 60%, 80% and 100% of
\* min(annual_allowable_cut, mill_capacity) and so at most that minimum;
\* and cumulative_disturbance grows by exactly 1% of the planned volume.
C39_PlanWithinTheCut ==
    [][ pc = "plan" =>
        LET old == Len(state.harvest_blocks)
            new == { k \in 1..Len(state'.harvest_blocks) : k > old }
            cut == IF state.annual_allowable_cut < state.mill_capacity
                   THEN state.annual_allowable_cut ELSE state.mill_capacity
            planned == state'.cumulative_disturbance
                          - state.cumulative_disturbance
        IN /\ SubSeq(state'.harvest_blocks, 1, old) = state.harvest_blocks
           /\ Cardinality(new) <= 20
           /\ \A k \in new :
                 /\ state'.harvest_blocks[k].volume_m3 > 0
                 /\ state'.harvest_blocks[k].permit_status = "pending"
           /\ SumOver([k \in new |-> state'.harvest_blocks[k].volume_m3], new)
                 <= planned
           /\ planned \in { (6 * cut) \div 10, (8 * cut) \div 10, cut }
           /\ planned <= cut
      ]_vars

\* C39 witness: a plan of the whole mill capacity cut into seventeen blocks
C39_SeventeenBlocks ==
    /\ last.op = "plan_harvest_schedule"
    /\ state.annual_allowable_cut > state.mill_capacity
    /\ Len(state.harvest_blocks) = 17
    /\ SumSeq([k \in 1..17 |-> state.harvest_blocks[k].volume_m3])
          = state.mill_capacity
    /\ state.cumulative_disturbance = 60000 + state.mill_capacity

\* C10: advance_quarter turns quarter 4 into quarter 1 of the next year and
\* counts one more year operated; from quarters 1 to 3 it adds one to the
\* quarter and leaves year and years_operated alone; the quarter of every
\* state is one of 1, 2, 3, 4.
C10_AdvanceQuarter ==
    [][ /\ state'.quarter \in 1..4
        /\ pc = "advance" =>
             IF state.quarter = 4
             THEN /\ state'.quarter = 1
                  /\ state'.year = state.year + 1
                  /\ state'.years_operated = state.years_operated + 1
             ELSE /\ state'.quarter = state.quarter + 1
                  /\ state'.year = state.year
                  /\ state'.years_operated = state.years_operated ]_vars

\* C10 witness: the calendar has wrapped from Q4 2025 into Q1 2026
C10_Wrapped ==
    /\ last.op = "advance_quarter"
    /\ state.quarter = 1 /\ state.year = 2026 /\ state.years_operated = 1

====
